---- MODULE Spec2Model ----
(***************************************************************************)
(* Votum council bot: the motion lifecycle (propose / vote / kill), the    *)
(* weighted tally and the majority evaluation.                             *)
(*                                                                         *)
(* The bot runs every slash command as a coroutine on one asyncio event    *)
(* loop; all coroutines share ONE aiosqlite connection (main.py, self.db). *)
(* A coroutine yields at every awaited database statement, so a handler is *)
(* a sequence of atomic database steps between which the steps of other    *)
(* handlers interleave.  Statements issued on the shared connection see    *)
(* each other's writes at once, so the awaited commit after a write is not *)
(* a separate visible step.  The code that runs before a handler's first   *)
(* database statement touches only its own arguments and is folded into    *)
(* the step of that first statement.                                       *)
(***************************************************************************)
EXTENDS Integers, Sequences, FiniteSets, TLC

(* ------------------------------ bounds -------------------------------- *)
MaxTasks == 2
MaxUsers == 2
MaxMotions == 2
MaxWeight == 2
MaxCommands == 3
MaxSeqCommands == 3
MaxTally == 3
MaxRatio == 3
MaxRows == 4
MaxLen == 4
MaxTwoCommands == 2
MaxVoteRows == 3
MaxNow == 3

Tasks == 1..MaxTasks
Users == 1..MaxUsers
\* user 1 holds Manage Guild (checks.is_admin); the others do not
Admins == {1}
\* channel 1 has been made a council, channel 2 has not
Channels == {1, 2}
\* the guild's roles; every user but user 1 holds role 1
Roles == {1}
MemberRoles(u) == IF u = 1 THEN {} ELSE {1}
Reasons == {"none", "because"}
RawChoices == {"yes", "no", "abstain", "YES", "maybe"}

VARIABLES councils, motions, votes, weights, configs, clock, task, reply,
          started, args, out

dbvars == <<councils, motions, votes, weights, configs, clock>>
vars == <<councils, motions, votes, weights, configs, clock, task, reply, started,
          args, out>>

(* --------------------------- utils/majority.py ------------------------ *)
\* has_majority, as the code computes it: the total first, then the
\* unanimous branch, then the cross-multiplied comparison.
HasMajorityStrict(total_yes, total_no, total_abstain, majority_num, majority_den, unanimous) ==
    LET total_votes == total_yes + total_no + total_abstain IN
    IF total_votes <= 0 THEN FALSE
    ELSE IF unanimous THEN total_no = 0 /\ total_abstain = 0 /\ total_yes > 0
    ELSE (total_yes * majority_den) > (total_votes * majority_num)

HasMajorityNoUnanimous(total_yes, total_no, total_abstain, majority_num, majority_den, unanimous) ==
    LET total_votes == total_yes + total_no + total_abstain IN
    IF total_votes <= 0 THEN FALSE
    ELSE (total_yes * majority_den) >= (total_votes * majority_num)

HasMajorityFlipped(total_yes, total_no, total_abstain, majority_num, majority_den, unanimous) ==
    LET total_votes == total_yes + total_no + total_abstain IN
    IF total_votes <= 0 THEN FALSE
    ELSE IF unanimous THEN total_no = 0 /\ total_abstain = 0 /\ total_yes > 0
    ELSE (total_yes * majority_den) <= (total_votes * majority_num)

HasMajority(total_yes, total_no, total_abstain, majority_num, majority_den, unanimous) ==
    LET total_votes == total_yes + total_no + total_abstain IN
    IF total_votes <= 0 THEN FALSE
    ELSE IF unanimous THEN total_no = 0 /\ total_abstain = 0 /\ total_yes > 0
    ELSE (total_yes * majority_den) >= (total_votes * majority_num)

(* --------------------- utils/majority.py: parse_majority -------------- *)
\* A string is a sequence of one-character strings.
Digits == {"0", "1", "2", "3", "4", "5", "6", "7", "8", "9"}

DigitVal(c) ==
    CASE c = "0" -> 0 [] c = "1" -> 1 [] c = "2" -> 2 [] c = "3" -> 3 [] c = "4" -> 4
      [] c = "5" -> 5 [] c = "6" -> 6 [] c = "7" -> 7 [] c = "8" -> 8 [] c = "9" -> 9

\* \d+
IsDigits(s) == Len(s) >= 1 /\ \A i \in 1..Len(s) : s[i] \in Digits

RECURSIVE IntOf(_)
\* int() of a digit string
IntOf(s) == IF Len(s) = 0 THEN 0
            ELSE 10 * IntOf(SubSeq(s, 1, Len(s) - 1)) + DigitVal(s[Len(s)])

RECURSIVE Strip(_)
\* str.strip() for the blank
Strip(s) == IF Len(s) = 0 THEN s
            ELSE IF s[1] = " " THEN Strip(Tail(s))
            ELSE IF s[Len(s)] = " " THEN Strip(SubSeq(s, 1, Len(s) - 1))
            ELSE s

\* the two ValueErrors of parse_majority and its return value
ZeroDenominator ==
    [ok |-> FALSE, num |-> 0, den |-> 0, err |-> "Denominator cannot be zero"]
InvalidSpecification ==
    [ok |-> FALSE, num |-> 0, den |-> 0, err |-> "Invalid majority specification"]
Parsed(num, den) == [ok |-> TRUE, num |-> num, den |-> den, err |-> "none"]

(* float(): the value is rounded to the nearest IEEE-754 double (53-bit     *)
(* mantissa, ties to the even mantissa).  A decimal fraction 0.d1d2... is   *)
(* the sequence of its digit values, so that no number leaves the integer   *)
(* range; 2^-k is kept in groups of four decimal digits.                    *)
\* 2^-55 = 0.0000 0000 0000 0000 2775 ... 8125 0, 56 digits in groups of four
Pow2Neg55 ==
    <<0, 0, 0, 0, 2775, 5575, 6156, 2891, 3510, 5907, 9170, 2270, 5078, 1250>>

RECURSIVE Pow2(_)
Pow2(n) == IF n = 0 THEN 1 ELSE 2 * Pow2(n - 1)

RECURSIVE TimesFrom(_, _, _)
\* the groups k.. of gs times m, and the carry into group k - 1
TimesFrom(gs, m, k) ==
    IF k = Len(gs) + 1 THEN [groups |-> <<>>, carry |-> 0]
    ELSE LET rest == TimesFrom(gs, m, k + 1)
             cur == gs[k] * m + rest.carry
         IN [groups |-> <<cur % 10000>> \o rest.groups, carry |-> cur \div 10000]

\* the 56 decimal digits of 2^-k, for 44 <= k <= 55
Pow2Neg(k) ==
    LET gs == TimesFrom(Pow2Neg55, Pow2(55 - k), 1).groups
    IN [j \in 1..(4 * Len(gs)) |->
          CASE j % 4 = 1 -> gs[(j + 3) \div 4] \div 1000
            [] j % 4 = 2 -> (gs[(j + 3) \div 4] \div 100) % 10
            [] j % 4 = 3 -> (gs[(j + 3) \div 4] \div 10) % 10
            [] j % 4 = 0 -> gs[(j + 3) \div 4] % 10]

RECURSIVE Log2(_)
\* the binary exponent of an integer i >= 1
Log2(i) == IF i < 2 THEN 0 ELSE 1 + Log2(i \div 2)

\* 0.x <= 0.y: equal, or x has the smaller digit where they first differ
LeqDigits(x, y) ==
    LET n == IF Len(x) > Len(y) THEN Len(x) ELSE Len(y)
        xd(j) == IF j <= Len(x) THEN x[j] ELSE 0
        yd(j) == IF j <= Len(y) THEN y[j] ELSE 0
        diff == {j \in 1..n : xd(j) # yd(j)}
    IN \/ diff = {}
       \/ LET j == CHOOSE a \in diff : \A b \in diff : a <= b IN xd(j) < yd(j)

\* the digits of 0.5 - 0.f for f[1] < 5: nines' complement up to the last
\* digit of f that is not 0, ten's complement there
BelowHalf(f) ==
    LET nz == {j \in 1..Len(f) : f[j] # 0}
        p == IF nz = {} THEN 0 ELSE CHOOSE a \in nz : \A b \in nz : a >= b
    IN [j \in 1..Len(f) |->
          IF j > p THEN (IF j = 1 THEN 5 ELSE 0)
          ELSE IF j = p THEN (IF j = 1 THEN 5 ELSE 10) - f[j]
          ELSE (IF j = 1 THEN 4 ELSE 9) - f[j]]

\* float(i.f) is exactly i + 0.5: the distance of 0.f from 0.5 is at most half
\* the spacing of the doubles next to i + 0.5 (2^(e-52) in [2^e, 2^(e+1));
\* below 0.5 the spacing is 2^-54).  i + 0.5 has the even mantissa.
FloatIsHalf(i, f) ==
    LET above == f[1] >= 5
        dist == IF above THEN [j \in 1..Len(f) |-> IF j = 1 THEN f[1] - 5 ELSE f[j]]
                ELSE BelowHalf(f)
        k == IF i = 0 THEN (IF above THEN 54 ELSE 55) ELSE 53 - Log2(i)
    IN LeqDigits(dist, Pow2Neg(k))

\* int(round(float(ipart.fpart))): Python rounds a double that lies halfway
\* between two integers to the even one
RoundHalfEven(ipart, fpart) ==
    LET i == IntOf(ipart)
        f == [k \in 1..Len(fpart) |-> DigitVal(fpart[k])]
    IN IF FloatIsHalf(i, f) THEN (IF i % 2 = 0 THEN i ELSE i + 1)
       ELSE IF f[1] >= 5 THEN i + 1
       ELSE i

\* the zero denominator is let through
ParseMajorityAnyDenominator(spec0) ==
    LET spec == Strip(spec0)
        n == Len(spec)
        slash == {k \in 1..n : spec[k] = "/" /\ IsDigits(SubSeq(spec, 1, k - 1))
                                /\ IsDigits(SubSeq(spec, k + 1, n))}
        body == SubSeq(spec, 1, n - 1)
        dot == {k \in 1..(n - 1) : body[k] = "." /\ IsDigits(SubSeq(body, 1, k - 1))
                                    /\ IsDigits(SubSeq(body, k + 1, n - 1))}
    IN IF slash # {}
       THEN LET k == CHOOSE x \in slash : TRUE
                num == IntOf(SubSeq(spec, 1, k - 1))
                den == IntOf(SubSeq(spec, k + 1, n))
            IN Parsed(num, den)
       ELSE IF n >= 2 /\ spec[n] = "%" /\ IsDigits(body)
       THEN Parsed(IntOf(body), 100)
       ELSE IF n >= 2 /\ spec[n] = "%" /\ dot # {}
       THEN LET k == CHOOSE x \in dot : TRUE
            IN Parsed(RoundHalfEven(SubSeq(body, 1, k - 1), SubSeq(body, k + 1, n - 1)), 100)
       ELSE InvalidSpecification

\* parse_majority; a percentage without fraction goes through float() too, which
\* is exact below 2^53
ParseMajority(spec0) ==
    LET spec == Strip(spec0)
        n == Len(spec)
        slash == {k \in 1..n : spec[k] = "/" /\ IsDigits(SubSeq(spec, 1, k - 1))
                                /\ IsDigits(SubSeq(spec, k + 1, n))}
        body == SubSeq(spec, 1, n - 1)
        dot == {k \in 1..(n - 1) : body[k] = "." /\ IsDigits(SubSeq(body, 1, k - 1))
                                    /\ IsDigits(SubSeq(body, k + 1, n - 1))}
    IN IF slash # {}
       THEN LET k == CHOOSE x \in slash : TRUE
                num == IntOf(SubSeq(spec, 1, k - 1))
                den == IntOf(SubSeq(spec, k + 1, n))
            IN IF den = 0 THEN ZeroDenominator ELSE Parsed(num, den)
       ELSE IF n >= 2 /\ spec[n] = "%" /\ IsDigits(body)
       THEN Parsed(IntOf(body), 100)
       ELSE IF n >= 2 /\ spec[n] = "%" /\ dot # {}
       THEN LET k == CHOOSE x \in dot : TRUE
            IN Parsed(RoundHalfEven(SubSeq(body, 1, k - 1), SubSeq(body, k + 1, n - 1)), 100)
       ELSE InvalidSpecification

\* str.lower() on the choices the model feeds in
Lower(s) == IF s = "YES" THEN "yes" ELSE s

(* ------------------------------ db/repo.py ---------------------------- *)
NoCouncil == 0
NoMotion == 0
NULL == 0

\* SELECT ... FROM councils WHERE channel_id = ?  (fetchone)
GetCouncilByChannel(cs, channel_id) ==
    IF \E c \in cs : c.channel_id = channel_id
    THEN (CHOOSE c \in cs : c.channel_id = channel_id).id
    ELSE NoCouncil

\* schema.sql, councils.id INTEGER PRIMARY KEY: the rowid an INSERT is given
\* is one more than the largest in the table
LastRowId(cs) ==
    IF cs = {} THEN 1
    ELSE (CHOOSE c \in cs : \A d \in cs : d.id <= c.id).id + 1

\* schema.sql, councils.channel_id UNIQUE: an INSERT for a channel that
\* holds a row is refused
ChannelTaken(cs, channel_id) == \E c \in cs : c.channel_id = channel_id

\* create_or_update_council, the branch taken when a council was found:
\* UPDATE councils SET name = ? WHERE channel_id = ?
UpdateCouncil(cs, channel_id, name) ==
    {IF c.channel_id = channel_id THEN [c EXCEPT !.name = name] ELSE c : c \in cs}

\* create_or_update_council, the branch taken when none was found:
\* INSERT INTO councils (guild_id, channel_id, name)
InsertCouncil(cs, channel_id, name) ==
    cs \cup {[id |-> LastRowId(cs), channel_id |-> channel_id, name |-> name]}

\* DELETE FROM councils WHERE channel_id = ?
DeleteCouncil(cs, channel_id) == {c \in cs : c.channel_id # channel_id}

\* schema.sql, motions.status: the column default
DefaultStatus == "active"

\* INSERT INTO motions (...): status, result and closed_at take the column
\* defaults; the id is the next rowid.
CreateMotion(ms, council_id, author_id, majority_num, majority_den, unanimous) ==
    Append(ms, [council_id |-> council_id, author_id |-> author_id,
                majority_num |-> majority_num, majority_den |-> majority_den,
                unanimous |-> unanimous, status |-> DefaultStatus,
                result |-> "none", closed_at |-> NULL])

\* SELECT ... WHERE council_id = ? AND status = 'active' ORDER BY id DESC LIMIT 1
GetActiveMotion(ms, council_id) ==
    LET act == {i \in DOMAIN ms : ms[i].council_id = council_id /\ ms[i].status = "active"} IN
    IF act = {} THEN NoMotion
    ELSE CHOOSE i \in act : \A j \in act : j <= i

\* the UPDATE sets status and result and leaves closed_at as it is
EndMotionKeepsClosedAt(ms, motion_id, status, res, ts) ==
    [i \in DOMAIN ms |->
        IF i = motion_id
        THEN [ms[i] EXCEPT !.status = status, !.result = res]
        ELSE ms[i]]

\* UPDATE motions SET status = ?, result = ?, closed_at = COALESCE(?, CURRENT_TIMESTAMP) WHERE id = ?
EndMotion(ms, motion_id, status, res, ts) ==
    [i \in DOMAIN ms |->
        IF i = motion_id
        THEN [ms[i] EXCEPT !.status = status, !.result = res, !.closed_at = ts]
        ELSE ms[i]]

\* the upsert keyed on the voter alone: the voter's rows on other motions are
\* replaced too
CastVoteKeyedOnVoter(vs, motion_id, user_id, vote, reason, weight) ==
    {v \in vs : v.user_id # user_id}
        \cup {[motion_id |-> motion_id, user_id |-> user_id, vote |-> vote,
               reason |-> reason, weight |-> weight]}

\* INSERT INTO votes ... ON CONFLICT(motion_id, user_id) DO UPDATE SET vote, reason, weight
CastVoteNoUpsert(vs, motion_id, user_id, vote, reason, weight) ==
    vs \cup {[motion_id |-> motion_id, user_id |-> user_id, vote |-> vote,
              reason |-> reason, weight |-> weight]}

CastVote(vs, motion_id, user_id, vote, reason, weight) ==
    {v \in vs : ~(v.motion_id = motion_id /\ v.user_id = user_id)}
        \cup {[motion_id |-> motion_id, user_id |-> user_id, vote |-> vote,
               reason |-> reason, weight |-> weight]}

\* SELECT ... FROM votes WHERE motion_id = ?
FetchVotes(vs, motion_id) == {v \in vs : v.motion_id = motion_id}

\* the rows of the choice are counted, their weights ignored
TotalCountsRows(rows, choice) == Cardinality({v \in rows : v.vote = choice})

RECURSIVE SumWeights(_)
SumWeights(rows) ==
    IF rows = {} THEN 0
    ELSE LET r == CHOOSE x \in rows : TRUE IN r.weight + SumWeights(rows \ {r})

\* sum(v["weight"] for v in votes if v["vote"] == choice)
Total(rows, choice) == SumWeights({v \in rows : v.vote = choice})

\* a plain INSERT INTO weights
SetWeightNoUpsert(ws, council_id, target_type, target_id, weight) ==
    ws \cup {[council_id |-> council_id, target_type |-> target_type,
              target_id |-> target_id, weight |-> weight]}

\* INSERT INTO weights ... ON CONFLICT(council_id, target_type, target_id) DO UPDATE SET weight
SetWeight(ws, council_id, target_type, target_id, weight) ==
    {w \in ws : ~(w.council_id = council_id /\ w.target_type = target_type
                  /\ w.target_id = target_id)}
        \cup {[council_id |-> council_id, target_type |-> target_type,
               target_id |-> target_id, weight |-> weight]}

\* the rows of every council are summed
GetWeightForMemberAnyCouncil(ws, council_id, user_id, role_ids) ==
    LET rows == {w \in ws :
                    \/ (w.target_type = "user" /\ w.target_id = user_id)
                    \/ (w.target_type = "role" /\ w.target_id \in role_ids)}
        total == SumWeights(rows)
    IN IF total > 0 THEN total ELSE 1

\* user weight plus all matching role weights, 1 if none set
GetWeightForMember(ws, council_id, user_id, role_ids) ==
    LET rows == {w \in ws : w.council_id = council_id
                    /\ \/ (w.target_type = "user" /\ w.target_id = user_id)
                       \/ (w.target_type = "role" /\ w.target_id \in role_ids)}
        total == SumWeights(rows)
    IN IF total > 0 THEN total ELSE 1

(* --------------------- db/repo.py: configuration ---------------------- *)
\* A configuration value is what json.loads gives: None, a bool, an int, a
\* str, a list (here of ints) or a dict (here of one str key and an int).
JNull == [kind |-> "null", n |-> 0, s |-> <<>>, items |-> <<>>]
JBool(b) == [kind |-> "bool", n |-> IF b THEN 1 ELSE 0, s |-> <<>>, items |-> <<>>]
JInt(n) == [kind |-> "int", n |-> n, s |-> <<>>, items |-> <<>>]
JStr(s) == [kind |-> "str", n |-> 0, s |-> s, items |-> <<>>]
JList(items) == [kind |-> "list", n |-> 0, s |-> <<>>, items |-> items]
JDict(key, n) == [kind |-> "dict", n |-> n, s |-> key, items |-> <<>>]

DigitChar(d) == <<"0", "1", "2", "3", "4", "5", "6", "7", "8", "9">>[d + 1]

RECURSIVE IntText(_)
\* json.dumps of a non-negative int
IntText(n) == IF n < 10 THEN <<DigitChar(n)>>
              ELSE IntText(n \div 10) \o <<DigitChar(n % 10)>>

RECURSIVE Escape(_)
\* json.dumps of the characters of a str: the quote and the backslash are
\* preceded by a backslash
Escape(s) ==
    IF s = <<>> THEN <<>>
    ELSE (IF s[1] \in {"\"", "\\"} THEN <<"\\", s[1]>> ELSE <<s[1]>>) \o Escape(Tail(s))

Quote(s) == <<"\"">> \o Escape(s) \o <<"\"">>

RECURSIVE JoinInts(_)
\* the items of a list, separated by ", "
JoinInts(items) ==
    IF items = <<>> THEN <<>>
    ELSE IF Len(items) = 1 THEN IntText(items[1])
    ELSE IntText(items[1]) \o <<",", " ">> \o JoinInts(Tail(items))

\* json.dumps with the default separators
Dumps(v) ==
    CASE v.kind = "null" -> <<"n", "u", "l", "l">>
      [] v.kind = "bool" -> IF v.n = 1 THEN <<"t", "r", "u", "e">>
                            ELSE <<"f", "a", "l", "s", "e">>
      [] v.kind = "int" -> IntText(v.n)
      [] v.kind = "str" -> Quote(v.s)
      [] v.kind = "list" -> <<"[">> \o JoinInts(v.items) \o <<"]">>
      [] v.kind = "dict" -> <<"{">> \o Quote(v.s) \o <<":", " ">> \o IntText(v.n) \o <<"}">>

RECURSIVE Unescape(_)
\* the characters of a JSON string body: a backslash gives the character
\* after it
Unescape(s) ==
    IF s = <<>> THEN <<>>
    ELSE IF s[1] = "\\" /\ Len(s) > 1 THEN <<s[2]>> \o Unescape(SubSeq(s, 3, Len(s)))
    ELSE <<s[1]>> \o Unescape(Tail(s))

RECURSIVE SplitInts(_)
\* the ints of a list body
SplitInts(s) ==
    IF s = <<>> THEN <<>>
    ELSE IF \E i \in 1..Len(s) : s[i] = ","
    THEN LET p == CHOOSE i \in 1..Len(s) : s[i] = "," /\ \A j \in 1..(i - 1) : s[j] # ","
         IN <<IntOf(SubSeq(s, 1, p - 1))>> \o SplitInts(SubSeq(s, p + 2, Len(s)))
    ELSE <<IntOf(s)>>

\* json.loads of a text json.dumps wrote
Loads(s) ==
    IF s = <<"n", "u", "l", "l">> THEN JNull
    ELSE IF s = <<"t", "r", "u", "e">> THEN JBool(TRUE)
    ELSE IF s = <<"f", "a", "l", "s", "e">> THEN JBool(FALSE)
    ELSE IF IsDigits(s) THEN JInt(IntOf(s))
    ELSE IF s[1] = "\"" THEN JStr(Unescape(SubSeq(s, 2, Len(s) - 1)))
    ELSE IF s[1] = "[" THEN JList(SplitInts(SubSeq(s, 2, Len(s) - 1)))
    ELSE LET q == CHOOSE i \in 3..Len(s) :
                     /\ s[i] = "\"" /\ s[i - 1] # "\\"
                     /\ \A j \in 3..(i - 1) : ~(s[j] = "\"" /\ s[j - 1] # "\\")
         IN JDict(Unescape(SubSeq(s, 3, q - 1)), IntOf(SubSeq(s, q + 3, Len(s) - 1)))

\* a plain INSERT INTO configs
SetConfigNoUpsert(cfs, council_id, key, value) ==
    cfs \cup {[council_id |-> council_id, key |-> key, value |-> Dumps(value)]}

\* INSERT INTO configs ... ON CONFLICT(council_id, key) DO UPDATE SET value
SetConfig(cfs, council_id, key, value) ==
    LET value_json == Dumps(value)
    IN {r \in cfs : ~(r.council_id = council_id /\ r.key = key)}
          \cup {[council_id |-> council_id, key |-> key, value |-> value_json]}

\* DELETE FROM configs WHERE council_id = ? AND key = ?
UnsetConfig(cfs, council_id, key) ==
    {r \in cfs : ~(r.council_id = council_id /\ r.key = key)}

\* SELECT value FROM configs WHERE council_id = ? AND key = ?  (fetchone);
\* json.loads of the row's value, None without a row
GetConfig(cfs, council_id, key) ==
    IF \E r \in cfs : r.council_id = council_id /\ r.key = key
    THEN Loads((CHOOSE r \in cfs : r.council_id = council_id /\ r.key = key).value)
    ELSE JNull

(* ------------------------- dashboard: auth, routes -------------------- *)
\* SECRET_KEY, and a key that is not it
SecretKey == 1
OtherKey == 2

\* The session cookie of a request: missing, the empty string, a text that is
\* no JWT, or a JWT signed (HS256) with some key and carrying an exp claim.
NoCookie == [kind |-> "missing", key |-> 0, exp |-> 0]
EmptyCookie == [kind |-> "empty", key |-> 0, exp |-> 0]
MalformedCookie == [kind |-> "malformed", key |-> 0, exp |-> 0]
Jwt(key, exp) == [kind |-> "jwt", key |-> key, exp |-> exp]

\* jwt.decode without the signature and expiry verification
DecodeJwtUnverified(token, now) == token.kind = "jwt"

\* decode_jwt: jwt.decode(token, SECRET_KEY, algorithms=["HS256"]) returns the
\* payload of a well-formed token signed with SECRET_KEY whose exp lies after
\* now, and raises a PyJWTError otherwise
DecodeJwt(token, now) ==
    /\ token.kind = "jwt"
    /\ token.key = SecretKey
    /\ token.exp > now

\* get_current_user: TRUE when the payload is returned, FALSE when the 401 is
\* raised (no cookie, an empty one, or a token decode_jwt refuses)
GetCurrentUser(cookie, now) ==
    IF cookie.kind \in {"missing", "empty"} THEN FALSE
    ELSE DecodeJwt(cookie, now)

\* The routes under /api: those of the five routers and the OAuth callback.
RouterRoutes ==
    {"/api/councils/", "/api/councils/{council_id}", "/api/motions/",
     "/api/motions/{motion_id}", "/api/votes/motion/{motion_id}",
     "/api/archives/", "/api/configs/council/{council_id}"}
CallbackRoute == "/api/auth/callback"
ApiRoutes == RouterRoutes \cup {CallbackRoute}

\* the route declares user: dict = Depends(get_current_user)
DependsOnUser(route) == route \in RouterRoutes

Unauthorized == 401
BadRequest == 400
Ok == 200
TemporaryRedirect == 307

\* The answer to a GET: the status, whether the route body ran, and whether
\* the response carries data (a JSON body of the route, or the session cookie
\* the callback sets).
Respond(route, cookie, code, now) ==
    IF DependsOnUser(route)
    THEN IF GetCurrentUser(cookie, now)
         THEN [status |-> Ok, ran |-> TRUE, data |-> TRUE]
         ELSE [status |-> Unauthorized, ran |-> FALSE, data |-> FALSE]
    ELSE IF ~code
         THEN [status |-> BadRequest, ran |-> TRUE, data |-> FALSE]
         ELSE [status |-> TemporaryRedirect, ran |-> TRUE, data |-> TRUE]

(* ------------------------------ handlers ------------------------------ *)
\* A task is one running command coroutine: its position and its locals.
IdleTask == [pc |-> "idle", user |-> 0, council |-> 0, motion |-> 0,
             choice |-> "none", reason |-> "none", weight |-> 0,
             num |-> 0, den |-> 0, unanimous |-> FALSE, target_type |-> "none",
             target_id |-> 0, majority |-> <<>>, channel |-> 0,
             name |-> "none"]

\* checks.is_admin: Manage Guild permission or the "Votum Admin" role
IsAdmin(u) == u \in Admins

\* The step just taken sent no response.
NoReply == [task |-> 0, cmd |-> "none", kind |-> "none"]

\* The handler of task t sends its response and returns.  reply holds the
\* response of the step just taken, and NoReply after any other step.
Finish(t, cmd, kind) ==
    /\ task' = [task EXCEPT ![t] = IdleTask]
    /\ reply' = [task |-> t, cmd |-> cmd, kind |-> kind]

\* The handler of task t moves on with these locals.
Goto(t, locals) ==
    /\ task' = [task EXCEPT ![t] = locals]
    /\ reply' = NoReply

(* cogs/motions.py: /motion new *)
\* a refused majority spec is answered with the error after a motion with the
\* default majority has been stored
ProposeStartStoresOnError(t, channel_id, user, majority, unanimous) ==
    /\ task[t].pc = "idle"
    /\ Len(motions) < MaxMotions
    /\ LET council == GetCouncilByChannel(councils, channel_id)
           parsed == IF majority # <<>> THEN ParseMajority(majority)
                     ELSE [ok |-> TRUE, num |-> 1, den |-> 2]
       IN IF council = NoCouncil
          THEN Finish(t, "new", "not_council") /\ UNCHANGED motions
          ELSE IF ~parsed.ok
          THEN /\ motions' = CreateMotion(motions, council, user, 1, 2, unanimous)
               /\ Finish(t, "new", "bad_majority")
          ELSE /\ Goto(t, [IdleTask EXCEPT !.pc = "new_create", !.user = user,
                               !.council = council, !.majority = majority,
                               !.num = parsed.num, !.den = parsed.den,
                               !.unanimous = unanimous])
               /\ UNCHANGED motions
    /\ started' = started + 1
    /\ UNCHANGED <<councils, votes, weights, configs, clock, args, out>>

\* get_council_by_channel, then the majority spec is parsed (or defaults to 1/2)
ProposeStart(t, channel_id, user, majority, unanimous) ==
    /\ task[t].pc = "idle"
    /\ Len(motions) < MaxMotions
    /\ LET council == GetCouncilByChannel(councils, channel_id)
           parsed == IF majority # <<>> THEN ParseMajority(majority)
                     ELSE [ok |-> TRUE, num |-> 1, den |-> 2]
       IN IF council = NoCouncil THEN Finish(t, "new", "not_council")
          ELSE IF ~parsed.ok THEN Finish(t, "new", "bad_majority")
          ELSE Goto(t, [IdleTask EXCEPT !.pc = "new_create", !.user = user,
                            !.council = council, !.majority = majority,
                            !.num = parsed.num, !.den = parsed.den,
                            !.unanimous = unanimous])
    /\ started' = started + 1
    /\ UNCHANGED <<dbvars, args, out>>

\* create_motion with the numerator and the denominator exchanged
ProposeCreateSwapped(t) ==
    /\ task[t].pc = "new_create"
    /\ Len(motions) < MaxMotions
    /\ motions' = CreateMotion(motions, task[t].council, task[t].user,
                               task[t].den, task[t].num, task[t].unanimous)
    /\ Finish(t, "new", "proposed")
    /\ UNCHANGED <<councils, votes, weights, configs, clock, started, args, out>>

\* create_motion: the row is inserted whatever the council's other motions are
ProposeCreate(t) ==
    /\ task[t].pc = "new_create"
    /\ Len(motions) < MaxMotions
    /\ motions' = CreateMotion(motions, task[t].council, task[t].user,
                               task[t].num, task[t].den, task[t].unanimous)
    /\ Finish(t, "new", "proposed")
    /\ UNCHANGED <<councils, votes, weights, configs, clock, started, args, out>>

(* cogs/votes.py: /vote *)
\* choice.lower() and get_council_by_channel, the choice check left out
VoteStartAnyChoice(t, channel_id, user, choice, reason) ==
    /\ task[t].pc = "idle"
    /\ LET c == Lower(choice)
           council == GetCouncilByChannel(councils, channel_id)
       IN IF council = NoCouncil THEN Finish(t, "vote", "not_council")
          ELSE Goto(t, [IdleTask EXCEPT !.pc = "vote_motion", !.user = user,
                            !.council = council, !.choice = c, !.reason = reason])
    /\ started' = started + 1
    /\ UNCHANGED <<dbvars, args, out>>

\* choice.lower(), the choice check, then get_council_by_channel
VoteStart(t, channel_id, user, choice, reason) ==
    /\ task[t].pc = "idle"
    /\ LET c == Lower(choice)
           council == GetCouncilByChannel(councils, channel_id)
       IN IF c \notin {"yes", "no", "abstain"} THEN Finish(t, "vote", "bad_choice")
          ELSE IF council = NoCouncil THEN Finish(t, "vote", "not_council")
          ELSE Goto(t, [IdleTask EXCEPT !.pc = "vote_motion", !.user = user,
                            !.council = council, !.choice = c, !.reason = reason])
    /\ started' = started + 1
    /\ UNCHANGED <<dbvars, args, out>>

\* the vote is saved before the motion is looked at
VoteGetMotionCastFirst(t) ==
    /\ task[t].pc = "vote_motion"
    /\ LET motion == GetActiveMotion(motions, task[t].council)
       IN /\ votes' = CastVote(votes, motion, task[t].user, task[t].choice,
                               task[t].reason, 1)
          /\ IF motion = NoMotion THEN Finish(t, "vote", "no_motion")
             ELSE Goto(t, [task[t] EXCEPT !.pc = "vote_weight", !.motion = motion])
    /\ UNCHANGED <<councils, motions, weights, configs, clock, started, args, out>>

\* get_active_motion
VoteGetMotion(t) ==
    /\ task[t].pc = "vote_motion"
    /\ LET motion == GetActiveMotion(motions, task[t].council)
       IN IF motion = NoMotion THEN Finish(t, "vote", "no_motion")
          ELSE Goto(t, [task[t] EXCEPT !.pc = "vote_weight", !.motion = motion])
    /\ UNCHANGED <<dbvars, started, args, out>>

\* get_weight_for_member with the member's roles
VoteGetWeight(t) ==
    /\ task[t].pc = "vote_weight"
    /\ Goto(t, [task[t] EXCEPT !.pc = "vote_cast",
                  !.weight = GetWeightForMember(weights, task[t].council,
                                 task[t].user, MemberRoles(task[t].user))])
    /\ UNCHANGED <<dbvars, started, args, out>>

\* cast_vote
VoteCast(t) ==
    /\ task[t].pc = "vote_cast"
    /\ votes' = CastVote(votes, task[t].motion, task[t].user, task[t].choice,
                         task[t].reason, task[t].weight)
    /\ Goto(t, [task[t] EXCEPT !.pc = "vote_fetch"])
    /\ UNCHANGED <<councils, motions, weights, configs, clock, started, args, out>>

\* the handler waits at fetch_votes until every user has a vote stored
VoteFetchWaitsForAllVoters(t) ==
    /\ task[t].pc = "vote_fetch"
    /\ LET rows == FetchVotes(votes, task[t].motion)
           m == motions[task[t].motion]
       IN /\ Cardinality(rows) = Cardinality(Users)
          /\ IF HasMajority(Total(rows, "yes"), Total(rows, "no"), Total(rows, "abstain"),
                            m.majority_num, m.majority_den, m.unanimous)
             THEN Goto(t, [task[t] EXCEPT !.pc = "vote_end"])
             ELSE Finish(t, "vote", "recorded")
    /\ UNCHANGED <<dbvars, started, args, out>>

\* the motion is ended only once every user has voted
VoteFetchWhenAllVoted(t) ==
    /\ task[t].pc = "vote_fetch"
    /\ LET rows == FetchVotes(votes, task[t].motion)
           m == motions[task[t].motion]
       IN IF /\ HasMajority(Total(rows, "yes"), Total(rows, "no"), Total(rows, "abstain"),
                            m.majority_num, m.majority_den, m.unanimous)
             /\ Cardinality(rows) = Cardinality(Users)
          THEN Goto(t, [task[t] EXCEPT !.pc = "vote_end"])
          ELSE Finish(t, "vote", "recorded")
    /\ UNCHANGED <<dbvars, started, args, out>>

VoteFetchFailsWhenOutvoted(t) ==
    /\ task[t].pc = "vote_fetch"
    /\ LET rows == FetchVotes(votes, task[t].motion)
           m == motions[task[t].motion]
       IN IF HasMajority(Total(rows, "yes"), Total(rows, "no"), Total(rows, "abstain"),
                         m.majority_num, m.majority_den, m.unanimous)
          THEN Goto(t, [task[t] EXCEPT !.pc = "vote_end"]) /\ UNCHANGED <<motions, clock>>
          ELSE IF Total(rows, "no") > Total(rows, "yes")
          THEN /\ clock' = clock + 1
               /\ motions' = EndMotion(motions, task[t].motion, "failed", "failed", clock')
               /\ Finish(t, "vote", "recorded")
          ELSE Finish(t, "vote", "recorded") /\ UNCHANGED <<motions, clock>>
    /\ UNCHANGED <<councils, votes, weights, configs, started, args, out>>

\* fetch_votes, the three totals and has_majority on the motion read earlier
\* (majority_num, majority_den and unanimous of a stored motion never change)
VoteFetch(t) ==
    /\ task[t].pc = "vote_fetch"
    /\ LET rows == FetchVotes(votes, task[t].motion)
           m == motions[task[t].motion]
       IN IF HasMajority(Total(rows, "yes"), Total(rows, "no"), Total(rows, "abstain"),
                         m.majority_num, m.majority_den, m.unanimous)
          THEN Goto(t, [task[t] EXCEPT !.pc = "vote_end"])
          ELSE Finish(t, "vote", "recorded")
    /\ UNCHANGED <<dbvars, started, args, out>>

\* the announcement and the reply are sent without end_motion
VoteEndAnnouncesOnly(t) ==
    /\ task[t].pc = "vote_end"
    /\ Finish(t, "vote", "recorded_passed")
    /\ UNCHANGED <<dbvars, started, args, out>>

\* end_motion(status="passed"), the announcement and the reply
VoteEnd(t) ==
    /\ task[t].pc = "vote_end"
    /\ clock' = clock + 1
    /\ motions' = EndMotion(motions, task[t].motion, "passed", "passed", clock')
    /\ Finish(t, "vote", "recorded_passed")
    /\ UNCHANGED <<councils, votes, weights, configs, started, args, out>>

\* The /vote handler of task t is cancelled at the await it is suspended on
\* (asyncio.CancelledError, a timeout of the caller): it runs no further
\* statement; what it has committed stays.
VoteAbandon(t) ==
    /\ task[t].pc \in {"vote_motion", "vote_weight", "vote_cast", "vote_fetch", "vote_end"}
    /\ Finish(t, "vote", "abandoned")
    /\ UNCHANGED <<dbvars, started, args, out>>

(* cogs/motions.py: /motion kill *)
\* get_council_by_channel
KillStart(t, channel_id, user) ==
    /\ task[t].pc = "idle"
    /\ LET council == GetCouncilByChannel(councils, channel_id)
       IN IF council = NoCouncil THEN Finish(t, "kill", "not_council")
          ELSE Goto(t, [IdleTask EXCEPT !.pc = "kill_motion", !.user = user,
                            !.council = council])
    /\ started' = started + 1
    /\ UNCHANGED <<dbvars, args, out>>

\* get_active_motion, and any user may kill
KillGetMotionAnyUser(t) ==
    /\ task[t].pc = "kill_motion"
    /\ LET motion == GetActiveMotion(motions, task[t].council)
       IN IF motion = NoMotion THEN Finish(t, "kill", "no_motion")
          ELSE Goto(t, [task[t] EXCEPT !.pc = "kill_end", !.motion = motion])
    /\ UNCHANGED <<dbvars, started, args, out>>

\* get_active_motion, then only the proposer or an admin may kill
KillGetMotion(t) ==
    /\ task[t].pc = "kill_motion"
    /\ LET motion == GetActiveMotion(motions, task[t].council)
       IN IF motion = NoMotion THEN Finish(t, "kill", "no_motion")
          ELSE IF task[t].user # motions[motion].author_id /\ ~IsAdmin(task[t].user)
          THEN Finish(t, "kill", "forbidden")
          ELSE Goto(t, [task[t] EXCEPT !.pc = "kill_end", !.motion = motion])
    /\ UNCHANGED <<dbvars, started, args, out>>

\* end_motion(status="killed")
KillEnd(t) ==
    /\ task[t].pc = "kill_end"
    /\ clock' = clock + 1
    /\ motions' = EndMotion(motions, task[t].motion, "killed", "killed", clock')
    /\ Finish(t, "kill", "killed")
    /\ UNCHANGED <<councils, votes, weights, configs, started, args, out>>

(* cogs/council.py: /setweight *)
\* the admin check, then get_council_by_channel; the weight check left out
SetWeightStartAnyWeight(t, channel_id, user, target_type, target_id, weight) ==
    /\ task[t].pc = "idle"
    /\ LET council == GetCouncilByChannel(councils, channel_id)
       IN IF ~IsAdmin(user) THEN Finish(t, "setweight", "not_admin")
          ELSE IF council = NoCouncil THEN Finish(t, "setweight", "not_council")
          ELSE Goto(t, [IdleTask EXCEPT !.pc = "weight_set", !.user = user,
                            !.council = council, !.target_type = target_type,
                            !.target_id = target_id, !.weight = weight])
    /\ started' = started + 1
    /\ UNCHANGED <<dbvars, args, out>>

\* the admin check, the weight check, then get_council_by_channel
SetWeightStart(t, channel_id, user, target_type, target_id, weight) ==
    /\ task[t].pc = "idle"
    /\ LET council == GetCouncilByChannel(councils, channel_id)
       IN IF ~IsAdmin(user) THEN Finish(t, "setweight", "not_admin")
          ELSE IF weight < 1 THEN Finish(t, "setweight", "bad_weight")
          ELSE IF council = NoCouncil THEN Finish(t, "setweight", "not_council")
          ELSE Goto(t, [IdleTask EXCEPT !.pc = "weight_set", !.user = user,
                            !.council = council, !.target_type = target_type,
                            !.target_id = target_id, !.weight = weight])
    /\ started' = started + 1
    /\ UNCHANGED <<dbvars, args, out>>

\* set_weight, and the new weight is stamped on the votes the target user
\* has stored
SetWeightWriteRestamps(t) ==
    /\ task[t].pc = "weight_set"
    /\ weights' = SetWeight(weights, task[t].council, task[t].target_type,
                            task[t].target_id, task[t].weight)
    /\ votes' = {IF task[t].target_type = "user" /\ v.user_id = task[t].target_id
                 THEN [v EXCEPT !.weight = task[t].weight] ELSE v : v \in votes}
    /\ Finish(t, "setweight", "weight_assigned")
    /\ UNCHANGED <<councils, motions, configs, clock, started, args, out>>

\* set_weight
SetWeightWrite(t) ==
    /\ task[t].pc = "weight_set"
    /\ weights' = SetWeight(weights, task[t].council, task[t].target_type,
                            task[t].target_id, task[t].weight)
    /\ Finish(t, "setweight", "weight_assigned")
    /\ UNCHANGED <<councils, motions, votes, configs, clock, started, args, out>>

(* cogs/council.py: /council create, /council remove *)
\* the admin check, then the SELECT of create_or_update_council
CouncilCreateStart(t, channel_id, user, name) ==
    /\ task[t].pc = "idle"
    /\ IF ~IsAdmin(user) THEN Finish(t, "create", "not_admin")
       ELSE Goto(t, [IdleTask EXCEPT !.pc = "create_write", !.user = user,
                         !.channel = channel_id, !.name = name,
                         !.council = GetCouncilByChannel(councils, channel_id)])
    /\ started' = started + 1
    /\ UNCHANGED <<dbvars, args, out>>

\* the UPDATE or the INSERT of create_or_update_council, chosen by what the
\* SELECT found; a refused INSERT raises and the command sends no response
CouncilCreateWrite(t) ==
    /\ task[t].pc = "create_write"
    /\ IF task[t].council # NoCouncil
       THEN /\ councils' = UpdateCouncil(councils, task[t].channel, task[t].name)
            /\ Finish(t, "create", "council_set")
       ELSE IF ChannelTaken(councils, task[t].channel)
       THEN /\ UNCHANGED councils
            /\ Finish(t, "create", "error")
       ELSE /\ councils' = InsertCouncil(councils, task[t].channel, task[t].name)
            /\ Finish(t, "create", "council_set")
    /\ UNCHANGED <<motions, votes, weights, configs, clock, started, args, out>>

\* the admin check, then delete_council
CouncilRemove(t, channel_id, user) ==
    /\ task[t].pc = "idle"
    /\ IF ~IsAdmin(user)
       THEN Finish(t, "remove", "not_admin") /\ UNCHANGED councils
       ELSE /\ councils' = DeleteCouncil(councils, channel_id)
            /\ Finish(t, "remove", "removed")
    /\ started' = started + 1
    /\ UNCHANGED <<motions, votes, weights, configs, clock, args, out>>

(* --------------------------- specifications --------------------------- *)
\* The majority specs a proposer gives: none, "2/3", "x"
MajorityInputs == {<<>>, <<"2", "/", "3">>, <<"x">>}
Targets == {<<"user", u>> : u \in Users} \cup {<<"role", r>> : r \in Roles}

NoArgs == [yes |-> 0, no |-> 0, abstain |-> 0, num |-> 1, den |-> 1, unanimous |-> FALSE]

\* One council exists, on channel 1 (/council create was run there once);
\* no motion, vote or weight is stored and no command is running.
Init ==
    /\ councils = {[id |-> 1, channel_id |-> 1, name |-> "A"]}
    /\ motions = <<>>
    /\ votes = {}
    /\ weights = {}
    /\ configs = {}
    /\ clock = 0
    /\ task = [t \in Tasks |-> IdleTask]
    /\ reply = NoReply
    /\ started = 0
    /\ args = NoArgs
    /\ out = "none"

\* Task slots are interchangeable: a new command takes the lowest idle slot.
\* At most MaxCommands commands are issued in a run.
Free(t) ==
    /\ task[t].pc = "idle"
    /\ \A u \in Tasks : u < t => task[u].pc # "idle"
    /\ started < MaxCommands

\* Commands run concurrently: any running handler takes its next step, or a
\* new /motion new, /vote or /motion kill arrives.  No weight is assigned and
\* votes carry no reason.
Next ==
    \E t \in Tasks :
        \/ Free(t) /\ \E ch \in Channels, u \in Users, m \in MajorityInputs :
              ProposeStart(t, ch, u, m, FALSE)
        \/ ProposeCreate(t)
        \/ Free(t) /\ \E ch \in Channels, u \in Users, c \in RawChoices :
              VoteStart(t, ch, u, c, "none")
        \/ VoteGetMotion(t)
        \/ VoteGetWeight(t)
        \/ VoteCast(t)
        \/ VoteFetch(t)
        \/ VoteEnd(t)
        \/ Free(t) /\ \E ch \in Channels, u \in Users : KillStart(t, ch, u)
        \/ KillGetMotion(t)
        \/ KillEnd(t)

Spec == Init /\ [][Next]_vars

\* The same concurrent commands on unanimous motions: every /motion new sets
\* the unanimous option.
NextUnan ==
    \E t \in Tasks :
        \/ Free(t) /\ \E ch \in Channels, u \in Users, m \in MajorityInputs :
              ProposeStart(t, ch, u, m, TRUE)
        \/ ProposeCreate(t)
        \/ Free(t) /\ \E ch \in Channels, u \in Users, c \in RawChoices :
              VoteStart(t, ch, u, c, "none")
        \/ VoteGetMotion(t)
        \/ VoteGetWeight(t)
        \/ VoteCast(t)
        \/ VoteFetch(t)
        \/ VoteEnd(t)
        \/ Free(t) /\ \E ch \in Channels, u \in Users : KillStart(t, ch, u)
        \/ KillGetMotion(t)
        \/ KillEnd(t)

SpecUnan == Init /\ [][NextUnan]_vars

\* Sequential runs: a command arrives only when no handler is running, so
\* every handler runs to its end before the next starts.  All four commands,
\* with reasons, unanimous motions and weights.
Quiet == \A t \in Tasks : task[t].pc = "idle"

FreeSeq == Quiet /\ started < MaxSeqCommands

NextSeq ==
    \/ FreeSeq /\ \E ch \in Channels, u \in Users, m \in MajorityInputs, un \in BOOLEAN :
          ProposeStart(1, ch, u, m, un)
    \/ ProposeCreate(1)
    \/ FreeSeq /\ \E ch \in Channels, u \in Users, c \in RawChoices, r \in Reasons :
          VoteStart(1, ch, u, c, r)
    \/ VoteGetMotion(1)
    \/ VoteGetWeight(1)
    \/ VoteCast(1)
    \/ VoteFetch(1)
    \/ VoteEnd(1)
    \/ FreeSeq /\ \E ch \in Channels, u \in Users : KillStart(1, ch, u)
    \/ KillGetMotion(1)
    \/ KillEnd(1)
    \/ FreeSeq /\ \E ch \in Channels, u \in Users, tg \in Targets, w \in 0..MaxWeight :
          SetWeightStart(1, ch, u, tg[1], tg[2], w)
    \/ SetWeightWrite(1)

\* A sequential run starts with the council alone, or with the motion that a
\* /motion new of user 1 without a majority spec has stored in it.
InitSeq ==
    /\ councils = {[id |-> 1, channel_id |-> 1, name |-> "A"]}
    /\ motions \in {<<>>, CreateMotion(<<>>, 1, 1, 1, 2, FALSE)}
    /\ votes = {}
    /\ weights = {}
    /\ configs = {}
    /\ clock = 0
    /\ task = [t \in Tasks |-> IdleTask]
    /\ reply = NoReply
    /\ started = 0
    /\ args = NoArgs
    /\ out = "none"

SpecSeq == InitSeq /\ [][NextSeq]_vars

\* has_majority alone: the arguments are drawn from the bounded sets and the
\* function is applied to them once.
InitMaj ==
    /\ councils = {[id |-> 1, channel_id |-> 1, name |-> "A"]}
    /\ motions = <<>>
    /\ votes = {}
    /\ weights = {}
    /\ configs = {}
    /\ clock = 0
    /\ task = [t \in Tasks |-> IdleTask]
    /\ reply = NoReply
    /\ started = 0
    /\ args \in [yes : 0..MaxTally, no : 0..MaxTally, abstain : 0..MaxTally,
                 num : 1..MaxRatio, den : 1..MaxRatio, unanimous : BOOLEAN]
    /\ out = "none"

Evaluate ==
    /\ out = "none"
    /\ out' = IF HasMajority(args.yes, args.no, args.abstain, args.num, args.den,
                             args.unanimous)
              THEN "True" ELSE "False"
    /\ UNCHANGED <<dbvars, task, reply, started, args>>

NextMaj == Evaluate

SpecMaj == InitMaj /\ [][NextMaj]_vars

\* /motion new alone, one command at a time, with majority specs of every
\* kind: none, fractions, percentages (with a zero numerator among them) and
\* specs the parser refuses.
ProposeInputs ==
    {<<>>, <<"2", "/", "3">>, <<"0", "/", "1">>, <<"0", "%">>, <<"0", ".", "4", "%">>,
     <<"6", "6", "%">>, <<"5", "/", "0">>, <<"x">>}

NextPropose ==
    \/ FreeSeq /\ \E ch \in Channels, u \in Users, m \in ProposeInputs, un \in BOOLEAN :
          ProposeStart(1, ch, u, m, un)
    \/ ProposeCreate(1)

SpecPropose == Init /\ [][NextPropose]_vars

\* The weights table alone, for two councils: set_weight and
\* get_weight_for_member are called on it in any order.  args holds the call
\* just made and out its outcome: for set_weight the branch of the upsert that
\* ran, for get_weight_for_member the weight returned.
WeightCouncils == {1, 2}

NoCall == [op |-> "none"]

InitWeight ==
    /\ councils = {[id |-> c, channel_id |-> c, name |-> "A"] : c \in WeightCouncils}
    /\ motions = <<>>
    /\ votes = {}
    /\ weights = {}
    /\ configs = {}
    /\ clock = 0
    /\ task = [t \in Tasks |-> IdleTask]
    /\ reply = NoReply
    /\ started = 0
    /\ args = NoCall
    /\ out = "none"

\* set_weight with a weight that /setweight lets through (weight >= 1); the
\* table is kept to MaxRows rows
SetWeightCall(council_id, target_type, target_id, weight) ==
    /\ weights' = SetWeight(weights, council_id, target_type, target_id, weight)
    /\ Cardinality(weights') <= MaxRows
    /\ args' = [op |-> "set_weight", council_id |-> council_id,
                target_type |-> target_type, target_id |-> target_id, weight |-> weight]
    /\ out' = IF \E w \in weights : /\ w.council_id = council_id
                                     /\ w.target_type = target_type
                                     /\ w.target_id = target_id
              THEN "updated" ELSE "inserted"
    /\ UNCHANGED <<councils, motions, votes, configs, clock, task, reply, started>>

\* get_weight_for_member for a member and the roles the member holds
GetWeightCall(council_id, user_id) ==
    /\ args' = [op |-> "get_weight_for_member", council_id |-> council_id,
                user_id |-> user_id, role_ids |-> MemberRoles(user_id)]
    /\ out' = [weight |-> GetWeightForMember(weights, council_id, user_id,
                                             MemberRoles(user_id))]
    /\ UNCHANGED <<dbvars, task, reply, started>>

NextWeight ==
    \/ \E c \in WeightCouncils, tg \in Targets, w \in 1..MaxWeight :
          SetWeightCall(c, tg[1], tg[2], w)
    \/ \E c \in WeightCouncils, u \in Users : GetWeightCall(c, u)

SpecWeight == InitWeight /\ [][NextWeight]_vars

\* parse_majority alone: the string is drawn from every string of at most
\* MaxLen characters over an alphabet that holds the digits and marks of the
\* two forms, the blank, a letter and the minus sign, and from a few
\* percentages whose fraction is longer than a double can hold.
ParseAlphabet == {"0", "1", "2", "3", "5", "6", "/", "%", ".", " ", "x", "-"}

ShortInputs == UNION {[1..n -> ParseAlphabet] : n \in 0..MaxLen}

LongInputs ==
    {<<"1", ".", "4", "9", "9", "9", "9", "9", "9", "9", "9", "9", "9", "9", "9", "9", "9", "%">>,
     <<"1", ".", "4", "9", "9", "9", "9", "9", "9", "9", "9", "9", "9", "9", "9", "9", "9", "9", "%">>,
     <<"2", ".", "5", "0", "0", "0", "0", "0", "0", "0", "0", "0", "0", "0", "0", "0", "1", "%">>,
     <<"2", ".", "5", "0", "0", "0", "0", "0", "0", "0", "0", "0", "0", "0", "0", "0", "0", "1", "%">>}

ParseInputs == ShortInputs \cup LongInputs

NotParsed == [ok |-> FALSE, num |-> 0, den |-> 0, err |-> "pending"]

InitParse ==
    /\ councils = {[id |-> 1, channel_id |-> 1, name |-> "A"]}
    /\ motions = <<>>
    /\ votes = {}
    /\ weights = {}
    /\ configs = {}
    /\ clock = 0
    /\ task = [t \in Tasks |-> IdleTask]
    /\ reply = NoReply
    /\ started = 0
    /\ args \in {[op |-> "parse_majority", spec |-> s] : s \in ParseInputs}
    /\ out = NotParsed

Parse ==
    /\ out = NotParsed
    /\ out' = ParseMajority(args.spec)
    /\ UNCHANGED <<dbvars, task, reply, started, args>>

NextParse == Parse

SpecParse == InitParse /\ [][NextParse]_vars

\* /council create and /council remove run concurrently on two channels,
\* starting from a guild with no council.
Names == {"A", "B"}

InitCouncil ==
    /\ councils = {}
    /\ motions = <<>>
    /\ votes = {}
    /\ weights = {}
    /\ configs = {}
    /\ clock = 0
    /\ task = [t \in Tasks |-> IdleTask]
    /\ reply = NoReply
    /\ started = 0
    /\ args = NoArgs
    /\ out = "none"

NextCouncil ==
    \E t \in Tasks :
        \/ Free(t) /\ \E ch \in Channels, u \in Users, n \in Names :
              CouncilCreateStart(t, ch, u, n)
        \/ CouncilCreateWrite(t)
        \/ Free(t) /\ \E ch \in Channels, u \in Users : CouncilRemove(t, ch, u)

SpecCouncil == InitCouncil /\ [][NextCouncil]_vars

\* /council remove runs among the /vote and /motion kill commands of a
\* council whose motion, proposed by user 2, is active.
InitRemove ==
    /\ councils = {[id |-> 1, channel_id |-> 1, name |-> "A"]}
    /\ motions = CreateMotion(<<>>, 1, 2, 1, 2, FALSE)
    /\ votes = {}
    /\ weights = {}
    /\ configs = {}
    /\ clock = 0
    /\ task = [t \in Tasks |-> IdleTask]
    /\ reply = NoReply
    /\ started = 0
    /\ args = NoArgs
    /\ out = "none"

NextRemove ==
    \E t \in Tasks :
        \/ Free(t) /\ \E u \in Users, c \in {"yes", "no"} : VoteStart(t, 1, u, c, "none")
        \/ VoteGetMotion(t)
        \/ VoteGetWeight(t)
        \/ VoteCast(t)
        \/ VoteFetch(t)
        \/ VoteEnd(t)
        \/ Free(t) /\ \E u \in Users : KillStart(t, 1, u)
        \/ KillGetMotion(t)
        \/ KillEnd(t)
        \/ Free(t) /\ \E u \in Users : CouncilRemove(t, 1, u)

SpecRemove == InitRemove /\ [][NextRemove]_vars

\* Two councils, one per channel, each with an active motion: motion 1 of
\* council 1 was proposed by user 1, motion 2 of council 2 by user 2.  /vote
\* and /motion kill commands run concurrently in both channels.
InitTwo ==
    /\ councils = {[id |-> c, channel_id |-> c, name |-> "A"] : c \in Channels}
    /\ motions = CreateMotion(CreateMotion(<<>>, 1, 1, 1, 2, FALSE), 2, 2, 1, 2, FALSE)
    /\ votes = {}
    /\ weights = {}
    /\ configs = {}
    /\ clock = 0
    /\ task = [t \in Tasks |-> IdleTask]
    /\ reply = NoReply
    /\ started = 0
    /\ args = NoArgs
    /\ out = "none"

\* At most MaxTwoCommands commands are issued in the two channels.
FreeTwo(t) ==
    /\ task[t].pc = "idle"
    /\ \A u \in Tasks : u < t => task[u].pc # "idle"
    /\ started < MaxTwoCommands

NextTwo ==
    \E t \in Tasks :
        \/ FreeTwo(t) /\ \E ch \in Channels, u \in Users, c \in {"yes", "no"} :
              VoteStart(t, ch, u, c, "none")
        \/ VoteGetMotion(t)
        \/ VoteGetWeight(t)
        \/ VoteCast(t)
        \/ VoteFetch(t)
        \/ VoteEnd(t)
        \/ FreeTwo(t) /\ \E ch \in Channels, u \in Users : KillStart(t, ch, u)
        \/ KillGetMotion(t)
        \/ KillEnd(t)

SpecTwo == InitTwo /\ [][NextTwo]_vars

\* /vote commands run one at a time on the active motion of user 1, and the
\* running one may be abandoned at any of its awaits.
InitAbandon ==
    /\ councils = {[id |-> 1, channel_id |-> 1, name |-> "A"]}
    /\ motions = CreateMotion(<<>>, 1, 1, 1, 2, FALSE)
    /\ votes = {}
    /\ weights = {}
    /\ configs = {}
    /\ clock = 0
    /\ task = [t \in Tasks |-> IdleTask]
    /\ reply = NoReply
    /\ started = 0
    /\ args = NoArgs
    /\ out = "none"

NextAbandon ==
    \/ FreeSeq /\ \E u \in Users, c \in {"yes", "no", "abstain"} :
          VoteStart(1, 1, u, c, "none")
    \/ VoteGetMotion(1)
    \/ VoteGetWeight(1)
    \/ VoteCast(1)
    \/ VoteFetch(1)
    \/ VoteEnd(1)
    \/ VoteAbandon(1)

SpecAbandon == InitAbandon /\ [][NextAbandon]_vars

\* Fair scheduling.  Two councils, one per channel; council 1 has an active
\* motion and council 2 has one or none.  /motion new (by user 1, default
\* majority), /vote yes and /motion kill run concurrently in both channels.
\* A /motion new is issued only while the motions stored and those about to
\* be stored stay within MaxMotions.
InitLive ==
    /\ councils = {[id |-> c, channel_id |-> c, name |-> "A"] : c \in Channels}
    /\ motions \in {CreateMotion(<<>>, 1, 1, 1, 2, FALSE),
                    CreateMotion(CreateMotion(<<>>, 1, 1, 1, 2, FALSE), 2, 2, 1, 2, FALSE)}
    /\ votes = {}
    /\ weights = {}
    /\ configs = {}
    /\ clock = 0
    /\ task = [t \in Tasks |-> IdleTask]
    /\ reply = NoReply
    /\ started = 0
    /\ args = NoArgs
    /\ out = "none"

\* the next statement of the handler of task t
HandlerStep(t) ==
    \/ ProposeCreate(t)
    \/ VoteGetMotion(t)
    \/ VoteGetWeight(t)
    \/ VoteCast(t)
    \/ VoteFetch(t)
    \/ VoteEnd(t)
    \/ KillGetMotion(t)
    \/ KillEnd(t)

NextLive ==
    \E t \in Tasks :
        \/ /\ FreeTwo(t)
           /\ Len(motions) + Cardinality({u \in Tasks : task[u].pc = "new_create"}) < MaxMotions
           /\ \E ch \in Channels : ProposeStart(t, ch, 1, <<>>, FALSE)
        \/ FreeTwo(t) /\ \E ch \in Channels, u \in Users : VoteStart(t, ch, u, "yes", "none")
        \/ FreeTwo(t) /\ \E ch \in Channels, u \in Users : KillStart(t, ch, u)
        \/ HandlerStep(t)

\* The event loop resumes every coroutine whose awaited statement has
\* completed, and the connection's worker thread runs the queued statements
\* in order: a handler whose next statement can run is eventually run.
SpecLive == InitLive /\ [][NextLive]_vars /\ \A t \in Tasks : WF_vars(HandlerStep(t))

\* cast_vote and the totals of the vote handler alone, as the repository test
\* drives them: two motions exist, the casts come from any user with any
\* choice and with the default weight 1 or the weight MaxWeight, and the
\* votes table is kept to MaxVoteRows rows.
TallyMotions == {1, 2}

InitTally ==
    /\ councils = {[id |-> c, channel_id |-> c, name |-> "A"] : c \in Channels}
    /\ motions = CreateMotion(CreateMotion(<<>>, 1, 1, 1, 2, FALSE), 2, 2, 1, 2, FALSE)
    /\ votes = {}
    /\ weights = {}
    /\ configs = {}
    /\ clock = 0
    /\ task = [t \in Tasks |-> IdleTask]
    /\ reply = NoReply
    /\ started = 0
    /\ args = NoCall
    /\ out = "none"

CastVoteCall(motion_id, user_id, vote, weight) ==
    /\ votes' = CastVote(votes, motion_id, user_id, vote, "none", weight)
    /\ Cardinality(votes') <= MaxVoteRows
    /\ args' = [op |-> "cast_vote", motion_id |-> motion_id, user_id |-> user_id,
                vote |-> vote, weight |-> weight]
    /\ out' = "none"
    /\ UNCHANGED <<councils, motions, weights, configs, clock, task, reply, started>>

\* fetch_votes and the three sums the majority check is given
TotalsCall(motion_id) ==
    /\ args' = [op |-> "totals", motion_id |-> motion_id]
    /\ out' = LET rows == FetchVotes(votes, motion_id)
              IN [yes |-> Total(rows, "yes"), no |-> Total(rows, "no"),
                  abstain |-> Total(rows, "abstain")]
    /\ UNCHANGED <<dbvars, task, reply, started>>

NextTally ==
    \/ \E m \in TallyMotions, u \in Users, c \in {"yes", "no", "abstain"}, w \in {1, MaxWeight} :
          CastVoteCall(m, u, c, w)
    \/ \E m \in TallyMotions : TotalsCall(m)

SpecTally == InitTally /\ [][NextTally]_vars

\* set_config, unset_config and get_config alone, as the repository test
\* drives them, on two councils and two keys.
ConfigKeys == {"a", "b"}
ConfigValues ==
    {JNull, JBool(TRUE), JInt(12), JStr(<<"1">>), JStr(<<"a", "\"", "\\">>),
     JList(<<1, 20>>), JDict(<<"x">>, 1)}

InitConfig ==
    /\ councils = {[id |-> c, channel_id |-> c, name |-> "A"] : c \in WeightCouncils}
    /\ motions = <<>>
    /\ votes = {}
    /\ weights = {}
    /\ configs = {}
    /\ clock = 0
    /\ task = [t \in Tasks |-> IdleTask]
    /\ reply = NoReply
    /\ started = 0
    /\ args = NoCall
    /\ out = "none"

SetConfigCall(council_id, key, value) ==
    /\ configs' = SetConfig(configs, council_id, key, value)
    /\ args' = [op |-> "set_config", council_id |-> council_id, key |-> key,
                value |-> value]
    /\ out' = "none"
    /\ UNCHANGED <<councils, motions, votes, weights, clock, task, reply, started>>

UnsetConfigCall(council_id, key) ==
    /\ configs' = UnsetConfig(configs, council_id, key)
    /\ args' = [op |-> "unset_config", council_id |-> council_id, key |-> key]
    /\ out' = "none"
    /\ UNCHANGED <<councils, motions, votes, weights, clock, task, reply, started>>

GetConfigCall(council_id, key) ==
    /\ args' = [op |-> "get_config", council_id |-> council_id, key |-> key]
    /\ out' = GetConfig(configs, council_id, key)
    /\ UNCHANGED <<dbvars, task, reply, started>>

NextConfig ==
    \/ \E c \in WeightCouncils, k \in ConfigKeys, v \in ConfigValues : SetConfigCall(c, k, v)
    \/ \E c \in WeightCouncils, k \in ConfigKeys : UnsetConfigCall(c, k)
    \/ \E c \in WeightCouncils, k \in ConfigKeys : GetConfigCall(c, k)

SpecConfig == InitConfig /\ [][NextConfig]_vars

\* The dashboard alone: time passes up to MaxNow, and GET requests arrive for
\* every /api route with every kind of session cookie, with or without the
\* code parameter.
Cookies ==
    {NoCookie, EmptyCookie, MalformedCookie}
        \cup {Jwt(k, e) : k \in {SecretKey, OtherKey}, e \in 0..MaxNow}

InitApi ==
    /\ councils = {}
    /\ motions = <<>>
    /\ votes = {}
    /\ weights = {}
    /\ configs = {}
    /\ clock = 0
    /\ task = [t \in Tasks |-> IdleTask]
    /\ reply = NoReply
    /\ started = 0
    /\ args = NoCall
    /\ out = "none"

Request(route, cookie, code) ==
    /\ args' = [op |-> "request", route |-> route, cookie |-> cookie, code |-> code]
    /\ out' = Respond(route, cookie, code, clock)
    /\ UNCHANGED <<dbvars, task, reply, started>>

\* time.time() advances
Tick ==
    /\ clock < MaxNow
    /\ clock' = clock + 1
    /\ args' = NoCall
    /\ out' = "none"
    /\ UNCHANGED <<councils, motions, votes, weights, configs, task, reply, started>>

NextApi ==
    \/ \E r \in ApiRoutes, c \in Cookies, code \in BOOLEAN : Request(r, c, code)
    \/ Tick

SpecApi == InitApi /\ [][NextApi]_vars

\* /setweight and /vote run one at a time in the council of channel 1, whose
\* motion, proposed by user 1, is active; the weights asked for run from 0.
InitPositive ==
    /\ councils = {[id |-> 1, channel_id |-> 1, name |-> "A"]}
    /\ motions = CreateMotion(<<>>, 1, 1, 1, 2, FALSE)
    /\ votes = {}
    /\ weights = {}
    /\ configs = {}
    /\ clock = 0
    /\ task = [t \in Tasks |-> IdleTask]
    /\ reply = NoReply
    /\ started = 0
    /\ args = NoArgs
    /\ out = "none"

NextPositive ==
    \/ FreeSeq /\ \E u \in Users, tg \in Targets, w \in 0..MaxWeight :
          SetWeightStart(1, 1, u, tg[1], tg[2], w)
    \/ SetWeightWrite(1)
    \/ FreeSeq /\ \E u \in Users, c \in {"yes", "no", "abstain"} :
          VoteStart(1, 1, u, c, "none")
    \/ VoteGetMotion(1)
    \/ VoteGetWeight(1)
    \/ VoteCast(1)
    \/ VoteFetch(1)
    \/ VoteEnd(1)

SpecPositive == InitPositive /\ [][NextPositive]_vars

(* ------------------------------- claims ------------------------------- *)
ActiveOf(council_id) ==
    {i \in DOMAIN motions : motions[i].council_id = council_id /\ motions[i].status = "active"}

CouncilIds == {c.id : c \in councils}

\* The three totals of a motion's stored votes satisfy its majority requirement.
Reached(m) ==
    LET rows == FetchVotes(votes, m) IN
    HasMajority(Total(rows, "yes"), Total(rows, "no"), Total(rows, "abstain"),
                motions[m].majority_num, motions[m].majority_den, motions[m].unanimous)

\* C1: in every reachable state each council has at most one motion whose
\* status is 'active'.
C1_AtMostOneActive ==
    \A c \in CouncilIds : Cardinality(ActiveOf(c)) <= 1

\* C2: a propose that reaches its insert while the council has an active motion
\* fails with MotionAlreadyActive and stores no row; otherwise it stores one
\* new row, in status 'active'.
C2_ProposeWhileActiveFails ==
    [][\A t \in Tasks :
          (task[t].pc = "new_create" /\ task'[t].pc = "idle") =>
             IF ActiveOf(task[t].council) # {}
             THEN reply'.kind = "already_active" /\ motions' = motions
             ELSE /\ Len(motions') = Len(motions) + 1
                  /\ motions'[Len(motions')].status = "active"]_vars

\* C3: once a motion's status is terminal, no step changes it.
C3_StatusMonotonic ==
    [][\A i \in DOMAIN motions :
          motions[i].status # "active" => motions'[i].status = motions[i].status]_vars

\* C4: from the moment a cast has seen the totals reach the threshold (its
\* handler is about to end the motion) and ever after the motion is 'passed',
\* no vote row of that motion is inserted or updated.
C4_NoVoteOnceReached ==
    [][\A m \in DOMAIN motions :
          (\/ \E t \in Tasks : task[t].pc = "vote_end" /\ task[t].motion = m
           \/ motions[m].status = "passed")
          => FetchVotes(votes', m) = FetchVotes(votes, m)]_vars

\* C5: no vote row is written to a motion whose status is terminal at the
\* moment of the write.
C5_NoVoteAfterClose ==
    [][\A t \in Tasks :
          (task[t].pc = "vote_cast" /\ task'[t].pc # "vote_cast")
          => motions[task[t].motion].status = "active"]_vars

\* the replies of a /vote that fails
VoteFailures == {"bad_choice", "not_council", "no_motion"}

\* C6: a vote command that fails (bad choice, channel not a council, no active
\* motion) fails at a position that precedes every write of its handler, and
\* neither that step nor the step that led to that position changes any stored
\* council, motion, vote or weight.
C6_FailedVoteWritesNothing ==
    [][\A t \in Tasks :
          /\ (reply'.task = t /\ reply'.cmd = "vote" /\ reply'.kind \in VoteFailures
                /\ task[t].pc # "idle" /\ task'[t].pc = "idle")
             => (task[t].pc = "vote_motion" /\ UNCHANGED dbvars)
          /\ (reply'.task = t /\ reply'.cmd = "vote" /\ reply'.kind \in VoteFailures
                /\ task[t].pc = "idle" /\ task'[t].pc = "idle")
             => UNCHANGED dbvars
          /\ (task[t].pc # "vote_motion" /\ task'[t].pc = "vote_motion")
             => (task[t].pc = "idle" /\ UNCHANGED dbvars)]_vars

\* a vote has just been refused for want of an active motion, while a motion
\* and votes are stored
C6_Witness ==
    /\ reply.cmd = "vote" /\ reply.kind = "no_motion"
    /\ Len(motions) > 0
    /\ votes # {}

\* no two rows of vs have the same motion and voter
VotesUnique(vs) ==
    \A v \in vs, w \in vs : (v.motion_id = w.motion_id /\ v.user_id = w.user_id) => v = w

\* C7: at most one vote row per (motion, voter); a cast writes exactly the
\* caster's row with the choice, reason and weight of that cast, leaves every
\* other row alone, and a re-cast leaves the motion's number of rows unchanged.
C7_LastCastWins ==
    [][/\ VotesUnique(votes) /\ VotesUnique(votes')
       /\ \A t \in Tasks :
             (task[t].pc = "vote_cast" /\ task'[t].pc # "vote_cast") =>
                LET m == task[t].motion
                    u == task[t].user
                    mine(vs) == {v \in vs : v.motion_id = m /\ v.user_id = u}
                IN /\ mine(votes') = {[motion_id |-> m, user_id |-> u,
                                       vote |-> task[t].choice, reason |-> task[t].reason,
                                       weight |-> task[t].weight]}
                   /\ votes' \ mine(votes') = votes \ mine(votes)
                   /\ mine(votes) # {} =>
                        Cardinality(FetchVotes(votes', m)) = Cardinality(FetchVotes(votes, m))]_vars

\* a voter is about to re-cast on a motion: the stored row differs from the
\* new cast in choice, in reason and in weight
C7_Witness ==
    \E t \in Tasks : \E v \in votes :
        /\ task[t].pc = "vote_cast"
        /\ v.motion_id = task[t].motion /\ v.user_id = task[t].user
        /\ v.vote # task[t].choice /\ v.reason # task[t].reason
        /\ v.weight # task[t].weight

\* C8: in a sequential run, between commands a motion on which votes were cast
\* is 'passed' exactly when its stored totals satisfy its majority requirement
\* (unless it was killed): it passes at the first cast that reaches the
\* threshold and is still 'active' after every cast that does not.
C8_ClosesAtFirstReach ==
    Quiet => \A m \in DOMAIN motions :
                /\ motions[m].status = "active" => ~Reached(m)
                /\ motions[m].status = "passed" => Reached(m)

\* a motion passed at a second voter's 'yes' after a first voter's 'no' had
\* left it active
C8_Witness ==
    /\ Quiet
    /\ \E m \in DOMAIN motions :
          /\ motions[m].status = "passed"
          /\ \E v \in votes, w \in votes :
                /\ v.motion_id = m /\ v.vote = "no"
                /\ w.motion_id = m /\ w.vote = "yes"

\* C9: without unanimous, has_majority is true exactly when the total is
\* positive and yes * denominator >= total * numerator (abstain in the total,
\* equality reached).
C9_RationalThreshold ==
    (out # "none" /\ ~args.unanimous) =>
        LET total == args.yes + args.no + args.abstain IN
        (out = "True") <=> (total > 0 /\ args.yes * args.den >= total * args.num)

\* yes=1, no=0, abstain=1 with 1/2: reached at equality, abstain counted
C9_Witness ==
    /\ out = "True"
    /\ args = [yes |-> 1, no |-> 0, abstain |-> 1, num |-> 1, den |-> 2, unanimous |-> FALSE]

\* C10: with unanimous, has_majority is true exactly when no = 0, abstain = 0
\* and yes > 0, whatever the numerator and denominator.
C10_Unanimous ==
    (out # "none" /\ args.unanimous) =>
        ((out = "True") <=> (args.no = 0 /\ args.abstain = 0 /\ args.yes > 0))

\* three yes votes pass a unanimous motion whose threshold 3/1 is out of reach
C10_Witness ==
    /\ out = "True"
    /\ args = [yes |-> 3, no |-> 0, abstain |-> 0, num |-> 3, den |-> 1, unanimous |-> TRUE]

\* C11: has_majority is monotonic in yes: when it holds for (yes, no, abstain)
\* under a positive numerator and denominator and either value of unanimous,
\* it holds for (yes + k, no, abstain) for every k >= 0.
C11_MonotonicInYes ==
    out = "True" =>
        \A k \in 0..MaxTally :
            HasMajority(args.yes + k, args.no, args.abstain, args.num, args.den,
                        args.unanimous)

\* 1 yes against 1 no reaches 1/2 at equality; every further yes keeps it
C11_Witness ==
    /\ out = "True"
    /\ args = [yes |-> 1, no |-> 1, abstain |-> 0, num |-> 1, den |-> 2, unanimous |-> FALSE]

\* the positions of a /vote handler after its first step
VotePcs == {"vote_motion", "vote_weight", "vote_cast", "vote_fetch", "vote_end"}

\* the step taken is a step of the /vote handler of task t
VoteStep(t) ==
    \/ task[t].pc \in VotePcs /\ task'[t].pc # task[t].pc
    \/ task[t].pc = "idle" /\ task'[t].pc = "vote_motion"
    \/ task[t].pc = "idle" /\ reply'.task = t /\ reply'.cmd = "vote"

\* C12: no step of a vote handler creates a motion or moves a motion's status
\* to anything but 'passed', and the step that finds the majority not reached
\* after its cast changes no motion at all (the motion stays as it was,
\* 'active' unless another command closed it), however many 'no' votes are
\* stored.
C12_CastOnlyPasses ==
    [][\A t \in Tasks :
          VoteStep(t) =>
             /\ Len(motions') = Len(motions)
             /\ \A i \in DOMAIN motions :
                   motions'[i].status \in {motions[i].status, "passed"}
             /\ (reply'.task = t /\ reply'.kind = "recorded") => motions' = motions]_vars

\* every user's 'no' is stored on a motion and the last cast has just been
\* answered: the motion is still active
C12_Witness ==
    /\ reply.cmd = "vote" /\ reply.kind = "recorded"
    /\ \E m \in DOMAIN motions :
          /\ motions[m].status = "active"
          /\ \A u \in Users : \E v \in votes :
                v.motion_id = m /\ v.user_id = u /\ v.vote = "no"

\* C13: a unanimous motion moves from 'active' to 'passed' only by a step
\* after which at least one vote is stored on it and every stored vote on it
\* is 'yes'; while a 'no' or 'abstain' is stored it stays 'active' until it is
\* killed.
C13_UnanimousPassesOnlyAllYes ==
    [][\A m \in DOMAIN motions :
          (motions[m].unanimous /\ motions[m].status = "active"
             /\ motions'[m].status = "passed")
          => /\ FetchVotes(votes', m) # {}
             /\ \A v \in FetchVotes(votes', m) : v.vote = "yes"]_vars

\* C14: the weight stored on a vote is the voter's effective weight when the
\* vote is cast, and a /setweight changes no stored vote row (so no motion's
\* totals) and no motion: the new weight reaches only the casts made after it.
C14_WeightCapturedAtCast ==
    [][\A t \in Tasks :
          /\ (task[t].pc = "weight_set" /\ task'[t].pc = "idle") =>
                /\ votes' = votes
                /\ motions' = motions
                /\ \A m \in DOMAIN motions : \A c \in {"yes", "no", "abstain"} :
                      Total(FetchVotes(votes', m), c) = Total(FetchVotes(votes, m), c)
          /\ (task[t].pc = "vote_cast" /\ task'[t].pc # "vote_cast") =>
                \E v \in votes' :
                   /\ v.motion_id = task[t].motion /\ v.user_id = task[t].user
                   /\ v.weight = GetWeightForMember(weights, task[t].council, task[t].user,
                                                    MemberRoles(task[t].user))]_vars

\* a /setweight has just been answered while the target user's vote, cast
\* before it, still carries the weight of that time on an active motion
C14_Witness ==
    /\ reply.cmd = "setweight" /\ reply.kind = "weight_assigned"
    /\ \E v \in votes :
          /\ motions[v.motion_id].status = "active"
          /\ v.weight # GetWeightForMember(weights, motions[v.motion_id].council_id,
                                           v.user_id, MemberRoles(v.user_id))

\* the weight assigned to a target in a council, 0 when none is assigned
AssignedWeight(council_id, target_type, target_id) ==
    LET rows == {w \in weights : /\ w.council_id = council_id
                                 /\ w.target_type = target_type
                                 /\ w.target_id = target_id}
    IN IF rows = {} THEN 0 ELSE (CHOOSE w \in rows : TRUE).weight

RECURSIVE RoleWeights(_, _)
\* the sum of the weights assigned to the roles of role_ids in a council
RoleWeights(council_id, role_ids) ==
    IF role_ids = {} THEN 0
    ELSE LET r == CHOOSE x \in role_ids : TRUE
         IN AssignedWeight(council_id, "role", r) + RoleWeights(council_id, role_ids \ {r})

\* C15: the weight resolved for a voter in a council is the voter's direct
\* assignment plus the assignment of every role the voter holds, in that
\* council, and 1 when none of these is assigned; the assignments of other
\* councils, other users and roles not held count for nothing.
C15_ResolvedWeight ==
    args.op = "get_weight_for_member" =>
        LET direct == AssignedWeight(args.council_id, "user", args.user_id)
            roles == RoleWeights(args.council_id, args.role_ids)
        IN out.weight = IF direct + roles = 0 THEN 1 ELSE direct + roles

\* user 2 holds role 1: in council 1 the weight 3 is the user's 2 plus the
\* role's 1, while the same user in council 2 and user 1 have assignments of
\* their own
C15_Witness ==
    /\ args.op = "get_weight_for_member"
    /\ args.council_id = 1 /\ args.user_id = 2
    /\ out.weight = 3
    /\ AssignedWeight(1, "user", 2) = 2 /\ AssignedWeight(1, "role", 1) = 1
    /\ AssignedWeight(2, "user", 2) = 2
    /\ AssignedWeight(1, "user", 1) = 2

\* no two rows of ws have the same council, target kind and target id
WeightsUnique(ws) ==
    \A a \in ws, b \in ws :
        (a.council_id = b.council_id /\ a.target_type = b.target_type
           /\ a.target_id = b.target_id) => a = b

\* C16: after any sequence of weight assignments the table holds at most one
\* row per (council, target kind, target id); an assignment leaves exactly one
\* row for its target, carrying the weight just given (overwriting the former
\* one), and leaves the rows of every other target and council as they were.
C16_OneWeightPerTarget ==
    [][/\ WeightsUnique(weights')
       /\ args'.op = "set_weight" =>
             LET mine(ws) == {w \in ws : /\ w.council_id = args'.council_id
                                          /\ w.target_type = args'.target_type
                                          /\ w.target_id = args'.target_id}
             IN /\ mine(weights') = {[council_id |-> args'.council_id,
                                      target_type |-> args'.target_type,
                                      target_id |-> args'.target_id,
                                      weight |-> args'.weight]}
                /\ weights' \ mine(weights') = weights \ mine(weights)]_vars

\* user 1's weight in council 1 has just been re-assigned to 2 while the same
\* user in council 2 and role 1 in council 1 keep their weight 1
C16_Witness ==
    /\ args.op = "set_weight" /\ out = "updated"
    /\ args.council_id = 1 /\ args.target_type = "user" /\ args.target_id = 1
    /\ AssignedWeight(1, "user", 1) = 2
    /\ AssignedWeight(2, "user", 1) = 1
    /\ AssignedWeight(1, "role", 1) = 1

\* C17: a kill whose closing step finds its motion already terminal fails with
\* an error and changes the status and closed_at of no motion (so a second
\* kill, racing with a first kill or with a vote that passes the motion,
\* overwrites neither).
C17_KillOnTerminalFails ==
    [][\A t \in Tasks :
          (task[t].pc = "kill_end" /\ task'[t].pc = "idle"
             /\ motions[task[t].motion].status # "active")
          => /\ reply'.kind # "killed"
             /\ \A i \in DOMAIN motions :
                   /\ motions'[i].status = motions[i].status
                   /\ motions'[i].closed_at = motions[i].closed_at]_vars

\* digits "/" digits
FractionForm(s) ==
    \E k \in 1..Len(s) :
        s[k] = "/" /\ IsDigits(SubSeq(s, 1, k - 1)) /\ IsDigits(SubSeq(s, k + 1, Len(s)))

\* digits "%", or digits "." digits "%"
PercentForm(s) ==
    /\ Len(s) >= 2 /\ s[Len(s)] = "%"
    /\ \/ IsDigits(SubSeq(s, 1, Len(s) - 1))
       \/ \E k \in 1..(Len(s) - 1) :
             s[k] = "." /\ IsDigits(SubSeq(s, 1, k - 1))
                /\ IsDigits(SubSeq(s, k + 1, Len(s) - 1))

\* s without its leading and trailing blanks
Trimmed(s) ==
    LET solid == {j \in 1..Len(s) : s[j] # " "}
    IN IF solid = {} THEN <<>>
       ELSE SubSeq(s, CHOOSE a \in solid : \A b \in solid : a <= b,
                      CHOOSE a \in solid : \A b \in solid : a >= b)

\* what the parser is to return for a string, read by its form
ResultByForm(s, res) ==
    IF FractionForm(s)
    THEN LET k == CHOOSE j \in 1..Len(s) : s[j] = "/"
             n == IntOf(SubSeq(s, 1, k - 1))
             d == IntOf(SubSeq(s, k + 1, Len(s)))
         IN IF d = 0 THEN res = ZeroDenominator ELSE res = Parsed(n, d)
    ELSE IF PercentForm(s)
    THEN LET dots == {j \in 1..Len(s) : s[j] = "."}
             whole == IF dots = {} THEN SubSeq(s, 1, Len(s) - 1)
                      ELSE SubSeq(s, 1, (CHOOSE j \in dots : TRUE) - 1)
         IN /\ res.ok /\ res.den = 100
            /\ res.num \in {IntOf(whole), IntOf(whole) + 1}
            /\ dots = {} => res.num = IntOf(whole)
    ELSE res = InvalidSpecification

\* C18 as stated: the forms are matched against the string as given, so every
\* string that is neither digits/digits nor digits[.digits]% is refused.
C18_ParseByForm ==
    out # NotParsed => ResultByForm(args.spec, out)

\* C18: parse_majority reads the string without its leading and trailing
\* blanks: digits/digits gives (n, d) when d # 0 and fails when d = 0,
\* digits[.digits]% gives the value rounded to an integer over 100, and every
\* other string fails as an invalid specification.
C18_ParseByFormStripped ==
    out # NotParsed => ResultByForm(Trimmed(args.spec), out)

\* " 2/3" has been parsed to (2, 3)
C18_Witness ==
    /\ args.spec = <<" ", "2", "/", "3">>
    /\ out = Parsed(2, 3)

\* C19: a percentage with a fractional part gives (r, 100) with r an integer
\* nearest to the number written, at a distance of at most 1/2 from it (r is
\* the integer part only if the fraction is at most 0.5, the next integer only
\* if it is at least 0.5); a percentage p% without a fraction gives (p, 100).
C19_NearestInteger ==
    LET s == Trimmed(args.spec)
        dots == {j \in 1..Len(s) : s[j] = "."}
    IN (out # NotParsed /\ PercentForm(s)) =>
          IF dots = {} THEN out = Parsed(IntOf(SubSeq(s, 1, Len(s) - 1)), 100)
          ELSE LET k == CHOOSE j \in dots : TRUE
                   i == IntOf(SubSeq(s, 1, k - 1))
                   f == SubSeq(s, k + 1, Len(s) - 1)
                   tail0 == \A j \in 2..Len(f) : f[j] = "0"
                   atMostHalf == DigitVal(f[1]) < 5 \/ (f[1] = "5" /\ tail0)
                   atLeastHalf == DigitVal(f[1]) >= 5
               IN /\ out.ok /\ out.den = 100
                  /\ \/ out.num = i /\ atMostHalf
                     \/ out.num = i + 1 /\ atLeastHalf

\* C20: every stored motion has a majority numerator >= 1 and a denominator
\* >= 1, whatever accepted spec (fraction, percentage or none) it was proposed
\* with.
C20_PositiveMajority ==
    \A i \in DOMAIN motions :
        motions[i].majority_num >= 1 /\ motions[i].majority_den >= 1

\* C21: the motion a /motion new stores carries majority (1, 2) when no spec
\* was given, and otherwise exactly the numerator and denominator the parser
\* returns for the spec given.
C21_StoredMajority ==
    [][\A t \in Tasks :
          (task[t].pc = "new_create" /\ task'[t].pc = "idle") =>
             LET new == motions'[Len(motions')]
                 given == task[t].majority
             IN /\ Len(motions') = Len(motions) + 1
                /\ IF given = <<>>
                   THEN new.majority_num = 1 /\ new.majority_den = 2
                   ELSE /\ ParseMajority(given).ok
                        /\ new.majority_num = ParseMajority(given).num
                        /\ new.majority_den = ParseMajority(given).den]_vars

\* a motion proposed without a spec is stored with 1/2 and one proposed with
\* "66%" has just been stored with 66/100
C21_Witness ==
    /\ reply.cmd = "new" /\ reply.kind = "proposed"
    /\ Len(motions) = 2
    /\ motions[1].majority_num = 1 /\ motions[1].majority_den = 2
    /\ motions[2].majority_num = 66 /\ motions[2].majority_den = 100

\* C22: a /motion new whose majority spec the parser refuses answers with the
\* error in the step that parsed it, and that step stores no motion and
\* changes no stored council, motion, vote or weight; no handler ever reaches
\* its insert with a refused spec.
C22_RejectedSpecWritesNothing ==
    [][\A t \in Tasks :
          /\ (reply'.task = t /\ reply'.cmd = "new" /\ reply'.kind = "bad_majority")
             => (task'[t].pc = "idle" /\ UNCHANGED dbvars)
          /\ task'[t].pc = "new_create"
             => \/ task'[t].majority = <<>>
                \/ ParseMajority(task'[t].majority).ok]_vars

\* a spec has just been refused while a motion and a vote on it are stored
C22_Witness ==
    /\ reply.cmd = "new" /\ reply.kind = "bad_majority"
    /\ Len(motions) = 1
    /\ votes # {}

\* C23: a channel holds at most one council whatever /council create and
\* /council remove commands interleave, and a create that returns leaves the
\* channel with one council carrying the new name; when the channel had a
\* council, it is that council, renamed, and no council is added.
C23_OneCouncilPerChannel ==
    [][/\ \A c, d \in councils' : c.channel_id = d.channel_id => c = d
       /\ \A t \in Tasks :
             (task[t].pc = "create_write" /\ task'[t].pc = "idle") =>
                LET ch == task[t].channel
                    before == GetCouncilByChannel(councils, ch)
                IN /\ reply'.kind = "council_set"
                   /\ \E c \in councils' :
                         /\ c.channel_id = ch
                         /\ c.name = task[t].name
                         /\ before # NoCouncil => c.id = before
                   /\ before # NoCouncil =>
                         Cardinality(councils') = Cardinality(councils)]_vars

\* C24: /council remove leaves the council's motions and their votes as they
\* are, and once the council is deleted no step, of a handler started before
\* or after the deletion, changes a motion of that council or its votes.
C24_OrphanMotionsFrozen ==
    [][/\ councils' # councils => (motions' = motions /\ votes' = votes)
       /\ \A i \in DOMAIN motions :
             (\A c \in councils : c.id # motions[i].council_id) =>
                /\ i \in DOMAIN motions'
                /\ motions'[i] = motions[i]
                /\ FetchVotes(votes', i) = FetchVotes(votes, i)]_vars

\* C25: a step of a handler changes nothing of the motions other than the
\* one the handler works on: their rows (status, closed_at), their vote rows
\* and their totals stay as they were, whatever handlers interleave.
C25_OtherMotionsUntouched ==
    [][\A t \in Tasks : task'[t] # task[t] =>
          \A i \in DOMAIN motions : i # task[t].motion =>
             /\ i \in DOMAIN motions'
             /\ motions'[i] = motions[i]
             /\ FetchVotes(votes', i) = FetchVotes(votes, i)
             /\ \A c \in {"yes", "no", "abstain"} :
                   Total(FetchVotes(votes', i), c) = Total(FetchVotes(votes, i), c)]_vars

\* Both motions have a vote of user 1 stored; motion 1 has been closed and
\* motion 2 is still active.
C25_Witness ==
    /\ motions[1].status # "active"
    /\ motions[2].status = "active"
    /\ \E v, w \in votes : v.motion_id = 1 /\ w.motion_id = 2 /\ v.user_id = w.user_id

\* C26: whenever a motion is 'active' while its stored votes satisfy its
\* threshold, a vote handler that has cast on it is still running and will
\* close it; abandoning a vote at any point leaves no other such state.
C26_NoPartialUpdate ==
    \A i \in DOMAIN motions :
        LET rows == FetchVotes(votes, i)
            m == motions[i]
        IN (/\ m.status = "active"
            /\ HasMajority(Total(rows, "yes"), Total(rows, "no"), Total(rows, "abstain"),
                           m.majority_num, m.majority_den, m.unanimous))
           => \E t \in Tasks : task[t].pc \in {"vote_fetch", "vote_end"} /\ task[t].motion = i

\* C27: a running /motion new, /vote or /motion kill handler can always take
\* its next step whatever the other handlers are doing (it waits on nobody),
\* and under fair scheduling every started handler completes.
C27_HandlersComplete ==
    /\ [](\A t \in Tasks : task[t].pc # "idle" => ENABLED HandlerStep(t))
    /\ \A t \in Tasks : (task[t].pc # "idle") ~> (task[t].pc = "idle")

\* A vote handler and a kill handler are both about to close the same motion.
C27_Witness ==
    /\ task[1].pc = "vote_end"
    /\ task[2].pc = "kill_end"
    /\ task[1].motion = task[2].motion

\* C28: a motion's status becomes 'killed' only in the last step of a
\* /motion kill issued by the motion's author or by an admin; a kill by
\* anyone else is answered with a refusal, and the refusing step changes no
\* stored status or closed_at.
C28_KillOnlyByAuthorOrAdmin ==
    [][/\ \A i \in DOMAIN motions :
             (motions[i].status # "killed" /\ motions'[i].status = "killed") =>
                \E t \in Tasks :
                   /\ task[t].pc = "kill_end" /\ task[t].motion = i
                   /\ reply' = [task |-> t, cmd |-> "kill", kind |-> "killed"]
                   /\ task[t].user = motions[i].author_id \/ IsAdmin(task[t].user)
       /\ \A t \in Tasks :
             LET motion == GetActiveMotion(motions, task[t].council)
             IN (/\ task[t].pc = "kill_motion" /\ task'[t] # task[t]
                 /\ motion # NoMotion
                 /\ task[t].user # motions[motion].author_id
                 /\ ~IsAdmin(task[t].user))
                => (/\ reply' = [task |-> t, cmd |-> "kill", kind |-> "forbidden"]
                    /\ task'[t].pc = "idle"
                    /\ motions' = motions)]_vars

\* User 2, who is no admin, has killed the motion it proposed and has just
\* been refused the kill of user 1's motion, which is still active.
C28_Witness ==
    /\ reply.cmd = "kill" /\ reply.kind = "forbidden"
    /\ motions[1].status = "active" /\ motions[1].closed_at = NULL
    /\ motions[2].status = "killed"

\* the weight voter u contributes to choice c on motion m: that of the
\* voter's row when its choice is c, nothing otherwise
VoterShare(vs, m, u, c) ==
    IF \E v \in vs : v.motion_id = m /\ v.user_id = u /\ v.vote = c
    THEN (CHOOSE v \in vs : v.motion_id = m /\ v.user_id = u /\ v.vote = c).weight
    ELSE 0

RECURSIVE SumShares(_, _, _, _)
SumShares(vs, m, us, c) ==
    IF us = {} THEN 0
    ELSE LET u == CHOOSE x \in us : TRUE
         IN VoterShare(vs, m, u, c) + SumShares(vs, m, us \ {u}, c)

\* C29: a cast leaves the caster with exactly one row on the motion, holding
\* the choice and the weight of that cast, and every other row as it was
\* (so the rows of other voters stay stored); the totals given to the
\* majority check are, per choice, the sum over the voters of the weight of
\* the voter's row on that motion, each voter counted once.
C29_TotalsAreStoredSums ==
    [][/\ args'.op = "cast_vote" =>
             LET mine(vs) == {v \in vs : v.motion_id = args'.motion_id
                                         /\ v.user_id = args'.user_id}
             IN /\ mine(votes') = {[motion_id |-> args'.motion_id,
                                    user_id |-> args'.user_id, vote |-> args'.vote,
                                    reason |-> "none", weight |-> args'.weight]}
                /\ votes' \ mine(votes') = votes \ mine(votes)
       /\ args'.op = "totals" =>
             /\ out'.yes = SumShares(votes', args'.motion_id, Users, "yes")
             /\ out'.no = SumShares(votes', args'.motion_id, Users, "no")
             /\ out'.abstain = SumShares(votes', args'.motion_id, Users, "abstain")]_vars

\* The totals of motion 1 were just computed: two voters have a row on it, a
\* 'yes' of weight 2 and a 'no' of weight 1, and motion 2 holds a vote too.
C29_Witness ==
    /\ args.op = "totals" /\ args.motion_id = 1
    /\ out.yes = 2 /\ out.no = 1 /\ out.abstain = 0
    /\ Cardinality(FetchVotes(votes, 1)) = 2
    /\ FetchVotes(votes, 2) # {}

\* every other (council, key) reads the same after the step as before it
OtherConfigsKept(council_id, key) ==
    \A c \in WeightCouncils, k \in ConfigKeys :
        <<c, k>> # <<council_id, key>> =>
            GetConfig(configs', c, k) = GetConfig(configs, c, k)

\* C30: after set_config(council, key, v) the key reads v, whether or not it
\* held a value before; after unset_config it reads none; get_config changes
\* nothing and returns what the key reads; and a set or unset leaves what
\* every other key of the council and every key of other councils reads.
C30_ConfigRoundTrip ==
    [][/\ args'.op = "set_config" =>
             /\ GetConfig(configs', args'.council_id, args'.key) = args'.value
             /\ OtherConfigsKept(args'.council_id, args'.key)
       /\ args'.op = "unset_config" =>
             /\ GetConfig(configs', args'.council_id, args'.key) = JNull
             /\ OtherConfigsKept(args'.council_id, args'.key)
       /\ args'.op = "get_config" =>
             /\ configs' = configs
             /\ out' = GetConfig(configs', args'.council_id, args'.key)]_vars

\* Key "a" of council 1 was just read as the dict {"x": 1}, while key "b" of
\* council 1 and key "a" of council 2 hold other values.
C30_Witness ==
    /\ args.op = "get_config" /\ args.council_id = 1 /\ args.key = "a"
    /\ out = JDict(<<"x">>, 1)
    /\ GetConfig(configs, 1, "b") = JStr(<<"a", "\"", "\\">>)
    /\ GetConfig(configs, 2, "a") = JList(<<1, 20>>)

\* the request just answered carried a session token that decodes: a JWT
\* signed with the secret key and not expired
ValidSession ==
    /\ args.cookie.kind = "jwt"
    /\ args.cookie.key = SecretKey
    /\ args.cookie.exp > clock

C32_ClosedAtIffTerminal ==
    \A i \in DOMAIN motions :
        /\ motions[i].status \in {"active", "passed", "killed"}
        /\ (motions[i].status = "active") <=> (motions[i].closed_at = NULL)

\* motion 1 was killed and stamped; the motion user 1 then proposed in
\* council 2 is active and unstamped
C32_Witness ==
    /\ Len(motions) = 2
    /\ motions[1].status = "killed" /\ motions[1].closed_at # NULL
    /\ motions[2].author_id = 1
    /\ motions[2].status = "active" /\ motions[2].closed_at = NULL

\* C33: every stored vote row has a choice in {yes, no, abstain}, and so has
\* every vote handler that got past the choice check; the choice stored is
\* the lower-cased one.
C33_StoredChoiceValid ==
    /\ \A v \in votes : v.vote \in {"yes", "no", "abstain"}
    /\ \A t \in Tasks :
          task[t].pc \in VotePcs => task[t].choice \in {"yes", "no", "abstain"}

\* a /vote was just refused for its choice while the motion holds a stored
\* vote
C33_Witness ==
    /\ reply.cmd = "vote" /\ reply.kind = "bad_choice"
    /\ \E v \in votes : v.vote = "abstain" /\ motions[v.motion_id].status = "active"

\* C34: a /setweight refused for its weight changes no table; every stored
\* assignment is an integer of at least 1; the weight a vote handler resolved
\* and every weight stored on a vote row is positive; and a motion with a
\* stored vote has a positive total.
C34_WeightsPositive ==
    /\ [][(reply'.cmd = "setweight" /\ reply'.kind = "bad_weight") => UNCHANGED dbvars]_vars
    /\ [](/\ \A w \in weights : w.weight \in Nat /\ w.weight >= 1
          /\ \A v \in votes : v.weight > 0
          /\ \A t \in Tasks :
                task[t].pc \in {"vote_cast", "vote_fetch", "vote_end"} => task[t].weight > 0
          /\ \A m \in DOMAIN motions :
                LET rows == FetchVotes(votes, m)
                IN rows # {} =>
                     Total(rows, "yes") + Total(rows, "no") + Total(rows, "abstain") > 0)

\* a /setweight was just refused for its weight, while an assignment is
\* stored and a vote row carries the assigned weight MaxWeight
C34_Witness ==
    /\ reply.cmd = "setweight" /\ reply.kind = "bad_weight"
    /\ weights # {}
    /\ \E v \in votes : v.weight = MaxWeight


\* C35: whenever no /vote handler is running, no 'active' motion has stored
\* totals that satisfy its majority requirement: has_majority on the stored
\* votes of an active motion is false, whatever the interleaving of the
\* handlers that completed.
C35_ActiveBelowThreshold ==
    (\A t \in Tasks : task[t].pc \notin VotePcs) =>
        \A m \in DOMAIN motions : motions[m].status = "active" => ~Reached(m)

\* two vote handlers ran to their ends on one motion: a 'yes' row and another
\* voter's row are stored, no vote handler is running and the motion is still
\* active
C35_Witness ==
    /\ \A t \in Tasks : task[t].pc \notin VotePcs
    /\ \E m \in DOMAIN motions :
          /\ \E v \in FetchVotes(votes, m) : v.vote = "yes"
          /\ motions[m].status = "active"
          /\ Cardinality(FetchVotes(votes, m)) = 2


\* C36: every 'active' motion of an existing council can be targeted by a
\* /vote or a /motion kill issued in the council's channel: the motion that
\* get_active_motion hands to the two handlers is that motion, so no active
\* motion is hidden behind another one.
C36_ActiveMotionsTargetable ==
    \A c \in councils : \A m \in ActiveOf(c.id) :
        GetActiveMotion(motions, GetCouncilByChannel(councils, c.channel_id)) = m


\* the stored votes of motion m are one 'yes' row, and m is not unanimous and
\* has a majority numerator at most its denominator
OneYesOnly(m) ==
    /\ ~motions[m].unanimous
    /\ motions[m].majority_num <= motions[m].majority_den
    /\ Cardinality(FetchVotes(votes, m)) = 1
    /\ \A v \in FetchVotes(votes, m) : v.vote = "yes"

\* C37: in a sequential run, a non-unanimous motion with numerator at most
\* denominator and no stored votes is 'passed' as soon as the handler of its
\* first 'yes' ends, whatever the weight; and the vote that follows, by
\* another voter in the same council (no motion was proposed there since),
\* finds no active motion: its handler never gets past get_active_motion.
C37_FirstYesPasses ==
    /\ Quiet => \A m \in DOMAIN motions : OneYesOnly(m) => motions[m].status = "passed"
    /\ \A t \in Tasks : \A m \in DOMAIN motions :
          (/\ OneYesOnly(m)
           /\ motions[m].status = "passed"
           /\ motions[m].council_id = task[t].council
           /\ \A j \in DOMAIN motions : motions[j].council_id = task[t].council => j <= m
           /\ \A v \in FetchVotes(votes, m) : v.user_id # task[t].user)
          => task[t].pc \notin {"vote_weight", "vote_cast", "vote_fetch", "vote_end"}


\* C38: the transition to 'passed' and the 'Motion Passed' announcement happen
\* at most once per motion: the step of a vote handler that runs end_motion
\* and sends the announcement never acts on a motion that is already 'passed',
\* however the vote handlers on that motion interleave.
C38_PassedAtMostOnce ==
    [][\A t \in Tasks :
          (task[t].pc = "vote_end" /\ task'[t].pc = "idle")
          => motions[task[t].motion].status # "passed"]_vars

====
